---- MODULE Spec2Model ----
(***************************************************************************)
(* Push Chain MCP servers: the request pipeline                            *)
(*   validate arguments -> look up the Data Store -> bound the result      *)
(*   (item count, character count) -> build the response envelope          *)
(* of the unified server and of the two standalone servers.                *)
(*                                                                         *)
(* Strings are TLA+ strings (Len, SubSeq and \o work on them).  A long     *)
(* text (a source file, a serialised payload) is a sequence of pieces;     *)
(* a piece carries its character count, so that lengths and prefixes are   *)
(* computed with the real CHARACTER_LIMIT.                                 *)
(***************************************************************************)
EXTENDS Integers, Sequences, FiniteSets, TLC

(***************************************************************************)
(* Bounds of the model.                                                    *)
(***************************************************************************)
\* largest limit / offset argument that is enumerated
MaxLimit == 2
MaxOffset == 3
\* number of exports of the largest Data Store that is enumerated
MaxExports == 6
\* the clock of the standalone docs server runs over MaxTicks cache lifetimes
MaxTicks == 1
\* the sample texts are at most MaxSpread characters off the lengths of interest
MaxSpread == 12

(***************************************************************************)
(* Program constants.                                                      *)
(***************************************************************************)
CHARACTER_LIMIT == 25000

\* utils/constants.js: the lifetime of the docs listing cache, in ms
CACHE_TTL == 1800000

(***************************************************************************)
(* String helpers (JavaScript String methods).                             *)
(***************************************************************************)
Min(a, b) == IF a < b THEN a ELSE b
Max(a, b) == IF a < b THEN b ELSE a

CharAt(s, i) == SubSeq(s, i, i)

\* String.prototype.includes
Includes(s, q) ==
  \E i \in 1..(Len(s) - Len(q) + 1) : SubSeq(s, i, i + Len(q) - 1) = q

\* String.prototype.startsWith / endsWith
StartsWith(s, p) == Len(s) >= Len(p) /\ SubSeq(s, 1, Len(p)) = p
EndsWith(s, p) == Len(s) >= Len(p) /\ SubSeq(s, Len(s) - Len(p) + 1, Len(s)) = p

Upper == "ABCDEFGHIJKLMNOPQRSTUVWXYZ"
Lower == "abcdefghijklmnopqrstuvwxyz"
Digit == "0123456789"

LowerChar(c) ==
  IF \E k \in 1..26 : CharAt(Upper, k) = c
  THEN CharAt(Lower, CHOOSE k \in 1..26 : CharAt(Upper, k) = c)
  ELSE c

RECURSIVE toLowerCase(_)
toLowerCase(s) ==
  IF Len(s) = 0 THEN ""
  ELSE LowerChar(CharAt(s, 1)) \o toLowerCase(SubSeq(s, 2, Len(s)))

IsDigit(c) == \E k \in 1..10 : CharAt(Digit, k) = c
IsAlnum(c) == IsDigit(c) \/ \E k \in 1..26 : CharAt(Upper, k) = c \/ CharAt(Lower, k) = c

\* number of decimal digits of a non-negative integer (template literal ${n})
RECURSIVE Digits(_)
Digits(n) == IF n < 10 THEN 1 ELSE 1 + Digits(n \div 10)

(***************************************************************************)
(* JavaScript values of a tool call's arguments.                           *)
(*   t: typeof tag, s: string value, i: integer value                      *)
(* A number that is not an integer has s = "float" (i its floor);          *)
(* NaN has s = "nan".                                                      *)
(***************************************************************************)
Undef == [t |-> "undefined", s |-> "", i |-> 0]
Str(s) == [t |-> "string", s |-> s, i |-> 0]
Num(i) == [t |-> "number", s |-> "", i |-> i]
Float(i) == [t |-> "number", s |-> "float", i |-> i]
NaN == [t |-> "number", s |-> "nan", i |-> 0]
Bool(b) == [t |-> "boolean", s |-> "", i |-> IF b THEN 1 ELSE 0]

RECURSIVE ParseDigits(_)
ParseDigits(s) ==
  IF Len(s) = 0 THEN 0
  ELSE 10 * ParseDigits(SubSeq(s, 1, Len(s) - 1))
       + ((CHOOSE k \in 1..10 : CharAt(Digit, k) = CharAt(s, Len(s))) - 1)

\* Number(v), the coercion of z.coerce.number()
ToNumber(v) ==
  CASE v.t = "number" -> v
    [] v.t = "boolean" -> Num(v.i)
    [] v.t = "string" ->
         IF \A k \in 1..Len(v.s) : IsDigit(CharAt(v.s, k))
         THEN Num(ParseDigits(v.s)) ELSE NaN
    [] OTHER -> NaN

(***************************************************************************)
(* Schema Validator (zod).  A field declaration:                           *)
(*   type     "string" | "number" | "enum"                                 *)
(*   coerce   z.coerce.number()                                            *)
(*   optional .optional()           hasDefault/def  .default(def)          *)
(*   min/max  .min() / .max() (hasMin/hasMax tell whether declared)        *)
(*   pattern  name of the .regex() ("" when none)                          *)
(*   options  the literals of z.enum                                       *)
(* Every number field of the schemas is declared .int().                   *)
(***************************************************************************)
SString(hasMin, min, max, pattern, optional) ==
  [type |-> "string", coerce |-> FALSE, optional |-> optional,
   hasDefault |-> FALSE, def |-> Undef, hasMin |-> hasMin, min |-> min,
   hasMax |-> TRUE, max |-> max, pattern |-> pattern, options |-> {}]

SNumber(coerce, min, hasMax, max, def) ==
  [type |-> "number", coerce |-> coerce, optional |-> FALSE,
   hasDefault |-> TRUE, def |-> Num(def), hasMin |-> TRUE, min |-> min,
   hasMax |-> hasMax, max |-> max, pattern |-> "", options |-> {}]

SEnum(options, hasDefault, def) ==
  [type |-> "enum", coerce |-> FALSE, optional |-> FALSE,
   hasDefault |-> hasDefault, def |-> Str(def), hasMin |-> FALSE, min |-> 0,
   hasMax |-> FALSE, max |-> 0, pattern |-> "", options |-> options]

\* the three .regex() constraints of the schemas
MatchesPattern(pattern, s) ==
  CASE pattern = "sdkpath" ->   \* /^packages\/(core|ui-kit)\//
         StartsWith(s, "packages/core/") \/ StartsWith(s, "packages/ui-kit/")
    [] pattern = "docpath" ->   \* /^docs\/chain\/.*\.mdx$/
         /\ StartsWith(s, "docs/chain/")
         /\ EndsWith(s, ".mdx")
         /\ Len(s) >= Len("docs/chain/") + Len(".mdx")
    [] pattern = "alnum" ->     \* /^[a-z0-9]+$/i
         Len(s) >= 1 /\ \A k \in 1..Len(s) : IsAlnum(CharAt(s, k))
    [] OTHER -> TRUE

\* schemas/docs-schemas.js
ListDocsInputSchema ==
  [category |-> SEnum({"tutorials", "setup", "build", "ui-kit", "deep-dives", "all"}, TRUE, "all")]

GetDocInputSchema ==
  [path |-> SString(TRUE, 1, 500, "docpath", FALSE),
   response_format |-> SEnum({"markdown", "json"}, TRUE, "markdown")]

SearchDocsInputSchema ==
  [query |-> SString(TRUE, 2, 200, "", FALSE),
   limit |-> SNumber(TRUE, 1, TRUE, 50, 20),
   response_format |-> SEnum({"markdown", "json"}, TRUE, "markdown")]

GetCodeSnippetsInputSchema ==
  [path |-> SString(FALSE, 0, 500, "docpath", TRUE),
   language |-> SString(FALSE, 0, 50, "alnum", TRUE),
   limit |-> SNumber(TRUE, 1, TRUE, 100, 50)]

\* schemas/sdk-schemas.js
GetSdkApiInputSchema ==
  [name |-> SString(TRUE, 1, 200, "", FALSE),
   package |-> SEnum({"core", "ui-kit", "any"}, TRUE, "any")]

SearchSdkInputSchema ==
  [query |-> SString(TRUE, 2, 200, "", FALSE),
   scope |-> SEnum({"all", "exports", "code", "types"}, TRUE, "all"),
   limit |-> SNumber(FALSE, 1, TRUE, 100, 20),
   offset |-> SNumber(FALSE, 0, FALSE, 0, 0)]

\* were `package` declared with a default, as the optional fields are
PackageInfoDefaulted ==
  [package |-> SEnum({"core", "ui-kit"}, TRUE, "core")]

GetPackageInfoInputSchema ==
  [package |-> SEnum({"core", "ui-kit"}, FALSE, "")]

GetTypeDefinitionInputSchema ==
  [name |-> SString(TRUE, 1, 200, "", FALSE)]

GetSourceFileInputSchema ==
  [path |-> SString(TRUE, 1, 500, "sdkpath", FALSE)]

ListAllExportsInputSchema ==
  [package |-> SEnum({"core", "ui-kit", "both"}, FALSE, ""),
   type |-> SEnum({"all", "functions", "classes", "types", "interfaces"}, TRUE, "all")]

FindUsageExamplesInputSchema ==
  [api_name |-> SString(TRUE, 1, 200, "", FALSE),
   limit |-> SNumber(FALSE, 1, TRUE, 50, 20)]

GetCoreClassesInputSchema == [x \in {} |-> Undef]

GetUIComponentsInputSchema == [x \in {} |-> Undef]

\* The "Args:" lines of the tool descriptions that ListTools returns:
\* "- name (required string)", "- limit (optional number)", "None required"
Arg(required, type) == [required |-> required, type |-> type]

NoArgs == [x \in {} |-> Arg(FALSE, "string")]

SdkDescribedArgs(name) ==
  CASE name = "get_sdk_api" ->
         [name |-> Arg(TRUE, "string"), package |-> Arg(FALSE, "string")]
    [] name = "search_sdk" ->
         [query |-> Arg(TRUE, "string"), scope |-> Arg(FALSE, "string"),
          limit |-> Arg(FALSE, "number"), offset |-> Arg(FALSE, "number")]
    [] name = "get_package_info" -> [package |-> Arg(TRUE, "string")]
    [] name = "get_type_definition" -> [name |-> Arg(TRUE, "string")]
    [] name = "get_source_file" -> [path |-> Arg(TRUE, "string")]
    [] name = "list_all_exports" ->
         [package |-> Arg(TRUE, "string"), type |-> Arg(FALSE, "string")]
    [] name = "find_usage_examples" ->
         [api_name |-> Arg(TRUE, "string"), limit |-> Arg(FALSE, "number")]
    [] OTHER -> NoArgs

DocsDescribedArgs(name) ==
  CASE name = "list_push_chain_docs" -> [category |-> Arg(FALSE, "string")]
    [] name = "get_push_chain_doc" ->
         [path |-> Arg(TRUE, "string"), response_format |-> Arg(FALSE, "string")]
    [] name = "search_push_chain_docs" ->
         [query |-> Arg(TRUE, "string"), limit |-> Arg(FALSE, "number"),
          response_format |-> Arg(FALSE, "string")]
    [] name = "get_code_snippets" ->
         [path |-> Arg(FALSE, "string"), language |-> Arg(FALSE, "string"),
          limit |-> Arg(FALSE, "number")]
    [] OTHER -> NoArgs

\* every key an argument object of the model may carry; "extra" is declared
\* by no schema
ArgFields ==
  {"name", "package", "query", "scope", "limit", "offset", "path", "type",
   "api_name", "category", "response_format", "language", "extra"}

\* an argument object: a key that is absent maps to Undef
Args(given) == [f \in ArgFields |-> IF f \in DOMAIN given THEN given[f] ELSE Undef]

\* the issues zod raises for one declared field
FieldIssueCodes(spec, v) ==
  IF v = Undef
  THEN IF spec.optional \/ spec.hasDefault THEN {} ELSE {"required"}
  ELSE CASE spec.type = "string" ->
              IF v.t # "string" THEN {"invalid_type"}
              ELSE (IF spec.hasMin /\ Len(v.s) < spec.min THEN {"too_small"} ELSE {})
                   \cup (IF spec.hasMax /\ Len(v.s) > spec.max THEN {"too_big"} ELSE {})
                   \cup (IF ~MatchesPattern(spec.pattern, v.s) THEN {"invalid_string"} ELSE {})
         [] spec.type = "number" ->
              LET w == IF spec.coerce THEN ToNumber(v) ELSE v IN
              IF w.t # "number" \/ w.s = "nan" THEN {"invalid_type"}
              ELSE (IF w.s = "float" THEN {"not_integer"} ELSE {})
                   \cup (IF spec.hasMin /\ w.i < spec.min THEN {"too_small"} ELSE {})
                   \cup (IF spec.hasMax /\ w.i > spec.max THEN {"too_big"} ELSE {})
         [] OTHER ->
              IF v.t = "string" /\ v.s \in spec.options THEN {}
              ELSE {"invalid_enum_value"}

\* the value a declared field has after a successful parse
ParsedValue(spec, v) ==
  IF v = Undef THEN (IF spec.hasDefault THEN spec.def ELSE Undef)
  ELSE IF spec.type = "number" /\ spec.coerce THEN ToNumber(v)
  ELSE v

\* z.object() without .strict(): zod strips the keys the shape does not
\* declare and raises no issue for them
StrippedKeys(schema, args) == {}

\* .strict(): a key that the shape does not declare
UnrecognizedKeys(schema, args) == {f \in ArgFields \ DOMAIN schema : args[f] # Undef}

\* Schema.parse(args): the ZodError's issues, or the parsed parameters
SchemaParse(schema, args) ==
  LET fieldIssues == UNION { { [path |-> f, code |-> c] : c \in FieldIssueCodes(schema[f], args[f]) }
                             : f \in DOMAIN schema }
      keyIssues == IF UnrecognizedKeys(schema, args) # {}
                   THEN {[path |-> "", code |-> "unrecognized_keys"]} ELSE {}
      issues == fieldIssues \cup keyIssues
  IN [ok |-> issues = {},
      issues |-> issues,
      params |-> [f \in ArgFields |->
                    IF f \in DOMAIN schema THEN ParsedValue(schema[f], args[f]) ELSE Undef]]

(***************************************************************************)
(* Texts.  A text is a sequence of pieces [k, n, of]:                      *)
(*   k = "str"     the characters of the string `of`                       *)
(*   k = "fill"    n further characters of the record whose path is `of`   *)
(*                 (the bulk of a long file; holds no line break and       *)
(*                 matches no query)                                       *)
(*   k = "json"    JSON.stringify(of, null, 2), n characters long; a       *)
(*                 smaller n is a prefix of that serialisation             *)
(*   k = "issues"  the "  - path: message" lines of a ZodError             *)
(*   k = "notice"  the truncation notice, `of` the two numbers it states   *)
(***************************************************************************)
S(str) == <<[k |-> "str", n |-> Len(str), of |-> str]>>

Json(v, n) == <<[k |-> "json", n |-> n, of |-> v]>>

RECURSIVE TLen(_)
TLen(text) == IF Len(text) = 0 THEN 0 ELSE Head(text).n + TLen(Tail(text))

\* the first n characters of a piece that is longer than n
CutPiece(p, n) ==
  IF p.k = "str" THEN [k |-> "str", n |-> n, of |-> SubSeq(p.of, 1, n)]
  ELSE [k |-> p.k, n |-> n, of |-> p.of]

\* String.prototype.substring(0, n)
RECURSIVE substring0(_, _)
substring0(text, n) ==
  IF n <= 0 \/ Len(text) = 0 THEN <<>>
  ELSE IF Head(text).n <= n
       THEN <<Head(text)>> \o substring0(Tail(text), n - Head(text).n)
       ELSE <<CutPiece(Head(text), n)>>

\* the text of a stored record: its leading characters, then the bulk
ContentText(path, c) ==
  S(c.s) \o (IF c.pad > 0 THEN <<[k |-> "fill", n |-> c.pad, of |-> path]>> ELSE <<>>)

ContentLen(c) == Len(c.s) + c.pad

\* content.split('\n')
RECURSIVE split(_)
split(s) ==
  IF ~Includes(s, "\n") THEN <<s>>
  ELSE LET i == CHOOSE i \in 1..Len(s) :
                  /\ CharAt(s, i) = "\n"
                  /\ \A j \in 1..(i - 1) : CharAt(s, j) # "\n"
       IN <<SubSeq(s, 1, i - 1)>> \o split(SubSeq(s, i + 1, Len(s)))

\* number of characters a string takes inside JSON.stringify: the quotes,
\* and one backslash for every line break and double quote
JsonStrLen(s) ==
  2 + Len(s) + Cardinality({i \in 1..Len(s) : CharAt(s, i) = "\n" \/ CharAt(s, i) = "\""})

(***************************************************************************)
(* utils/response-formatter.js                                             *)
(***************************************************************************)
\* the characters of the truncation notice other than the two numbers
NoticeFixedLen == 290

TruncationNotice(originalLength, limit) ==
  [k |-> "notice",
   n |-> NoticeFixedLen + Digits(originalLength) + Digits(limit),
   of |-> [originalLength |-> originalLength, showing |-> limit]]

\* a notice that states the displayed length where the original length belongs
enforceStatingShown(text, limit) ==
  IF TLen(text) <= limit
  THEN [text |-> text, truncated |-> FALSE, originalLength |-> TLen(text)]
  ELSE [text |-> substring0(text, limit) \o <<TruncationNotice(limit, limit)>>,
        truncated |-> TRUE,
        originalLength |-> TLen(text),
        displayedLength |-> limit]

\* no ceiling: the text is returned whole
enforceNothing(text, limit) ==
  [text |-> text, truncated |-> FALSE, originalLength |-> TLen(text)]

enforceCharacterLimit(text, limit) ==
  IF TLen(text) <= limit
  THEN [text |-> text, truncated |-> FALSE, originalLength |-> TLen(text)]
  ELSE [text |-> substring0(text, limit) \o <<TruncationNotice(TLen(text), limit)>>,
        truncated |-> TRUE,
        originalLength |-> TLen(text),
        displayedLength |-> limit]

truncateArray(items, maxItems) ==
  IF Len(items) <= maxItems
  THEN [items |-> items, truncated |-> FALSE, total |-> Len(items), showing |-> Len(items)]
  ELSE [items |-> SubSeq(items, 1, maxItems), truncated |-> TRUE,
        total |-> Len(items), showing |-> maxItems]

\* has_more false: the object has no next_offset key (hasNext FALSE)
formatPaginationMetadata(total, offset, limit) ==
  LET hasMore == (offset + limit) < total
      showing == Min(limit, total - offset)
  IN [total |-> total, offset |-> offset, limit |-> limit, showing |-> showing,
      has_more |-> hasMore,
      hasNext |-> hasMore,
      next_offset |-> IF hasMore THEN offset + limit ELSE 0]

\* the replacement each character gets in sanitizeInput
SanitizeChar(c) ==
  CASE c = "&" -> "&amp;"
    [] c = "<" -> "&lt;"
    [] c = ">" -> "&gt;"
    [] c = "\"" -> "&quot;"
    [] c = "'" -> "&#x27;"
    [] c = "/" -> "&#x2F;"
    [] OTHER -> c

RECURSIVE EscapeAll(_)
EscapeAll(s) ==
  IF Len(s) = 0 THEN ""
  ELSE SanitizeChar(CharAt(s, 1)) \o EscapeAll(SubSeq(s, 2, Len(s)))

IsWordOrSpace(c) == IsAlnum(c) \/ c = "_" \/ c = " " \/ c = "\n" \/ c = "\t"

\* .replace(/([^\w\s])\1{3,}/g, '$1$1$1'): a run of four or more equal
\* special characters is cut to three
RECURSIVE LimitRuns(_)
LimitRuns(s) ==
  IF Len(s) = 0 THEN ""
  ELSE LET c == CharAt(s, 1)
           run == CHOOSE r \in 1..Len(s) :
                    /\ \A j \in 1..r : CharAt(s, j) = c
                    /\ (r = Len(s) \/ CharAt(s, r + 1) # c)
       IN IF ~IsWordOrSpace(c) /\ run >= 4
          THEN c \o c \o c \o LimitRuns(SubSeq(s, run + 1, Len(s)))
          ELSE c \o LimitRuns(SubSeq(s, 2, Len(s)))

\* a sanitizer that hands the input back as it is
sanitizeNothing(input) == input

\* params.query is a string whenever the handler reaches sanitizeInput
sanitizeInput(input) == LimitRuns(EscapeAll(input))

\* handleValidationError: the header, one line per issue, the closing advice
RECURSIVE IssueLinesLen(_)
IssueLinesLen(issues) ==
  IF issues = {} THEN 0
  ELSE LET e == CHOOSE e \in issues : TRUE
       IN Len("  - ") + Len(e.path) + Len(": ") + Len(e.code) + Len("\n")
          + IssueLinesLen(issues \ {e})

handleValidationError(issues) ==
  S("Error: Invalid input parameters:\n")
  \o <<[k |-> "issues", n |-> IssueLinesLen(issues) - 1, of |-> issues]>>
  \o S("\n\nPlease check the parameter types and constraints, then try again.")

(***************************************************************************)
(* Response envelopes and protocol errors.                                 *)
(*   kind = "result": {content: [{type: "text", text}], isError?}          *)
(*   kind = "error":  a thrown McpError with its code                      *)
(***************************************************************************)
createErrorResponse(text) ==
  [kind |-> "result", isError |-> TRUE, code |-> "", text |-> text]

createSuccessResponse(text) ==
  [kind |-> "result", isError |-> FALSE, code |-> "", text |-> text]

McpError(code, text) ==
  [kind |-> "error", isError |-> FALSE, code |-> code, text |-> text]

(***************************************************************************)
(* Static input artifacts (data/*.json), as the generator scripts write    *)
(* them.  `bulk` is the number of characters of the long records beyond    *)
(* their leading lines.                                                    *)
(***************************************************************************)
BulkSizes == {30000, 120000}

\* data/sdk_file_contents.json, in key order
fileContentsData(bulk) ==
  << [path |-> "packages/core/src/client.ts",
      content |-> [s |-> "export class PushClient {\n  connect() {}\n}\nexport type PushConfig = {}\n",
                   pad |-> bulk]],
     [path |-> "packages/ui-kit/src/core/wallet.ts",
      content |-> [s |-> "// usePushWallet hook\nexport function usePushWallet() {\n  return PushClient\n}\n",
                   pad |-> 0]],
     [path |-> "packages/shared-components/src/x.ts",
      content |-> [s |-> "export const PUSH_URL = 1\n", pad |-> 0]],
     [path |-> "packages/core/src/signer.ts",
      content |-> [s |-> "export interface PushSigner {}\n", pad |-> 0]],
     [path |-> "packages/core/src/empty.ts",
      content |-> [s |-> "", pad |-> 0]] >>

\* the declarations the extraction script finds, in the order it finds them
ExportPool ==
  << [name |-> "PushClient", file |-> "packages/core/src/client.ts", kind |-> "classes"],
     [name |-> "usePushWallet", file |-> "packages/ui-kit/src/core/wallet.ts", kind |-> "functions"],
     [name |-> "PUSH_URL", file |-> "packages/shared-components/src/x.ts", kind |-> "constants"],
     [name |-> "PushConfig", file |-> "packages/core/src/client.ts", kind |-> "types"],
     [name |-> "PushSigner", file |-> "packages/core/src/signer.ts", kind |-> "interfaces"],
     [name |-> "PushClient", file |-> "packages/ui-kit/src/core/wallet.ts", kind |-> "functions"],
     [name |-> "WalletProvider", file |-> "packages/ui-kit/src/core/wallet.ts", kind |-> "functions"],
     [name |-> "PUSH_CHAIN", file |-> "packages/core/src/client.ts", kind |-> "constants"] >>

ExportKinds == <<"functions", "classes", "types", "interfaces", "constants">>

OfKind(pool, kind) ==
  LET sel == SelectSeq(pool, LAMBDA e : e.kind = kind)
  IN [i \in 1..Len(sel) |-> [name |-> sel[i].name, file |-> sel[i].file]]

\* data/sdk_complete_exports.json holding the first n declarations
exportsDataOf(n) ==
  [kind \in {ExportKinds[i] : i \in 1..Len(ExportKinds)} |->
     OfKind(SubSeq(ExportPool, 1, Min(n, Len(ExportPool))), kind)]

\* data/sdk_packages_complete.json
packagesDataOf(withUiKit) ==
  << [name |-> "@pushchain/core", version |-> "1.0.0"],
     [name |-> "@pushchain/shared-components", version |-> "1.0.0"] >>
  \o (IF withUiKit THEN << [name |-> "@pushchain/ui-kit", version |-> "1.0.0"] >> ELSE <<>>)

\* data/docs_cache.json (.docs)
docsCacheData(bulk) ==
  << [name |-> "intro.mdx", path |-> "docs/chain/01-tutorials/intro.mdx",
      htmlUrl |-> "https://github.com/pushchain/intro",
      content |-> [s |-> "# Intro\nPush Chain wallet intro\n", pad |-> bulk],
      codeSnippets |-> << [language |-> "bash", code |-> "npm i"] >>],
     [name |-> "next.mdx", path |-> "docs/chain/01-tutorials/next.mdx",
      htmlUrl |-> "https://github.com/pushchain/next",
      content |-> [s |-> "# Next\nmore to build\n", pad |-> 0],
      codeSnippets |-> <<>>],
     [name |-> "wallet.mdx", path |-> "docs/chain/02-setup/wallet.mdx",
      htmlUrl |-> "https://github.com/pushchain/wallet",
      content |-> [s |-> "# Wallet\nsetup steps\n", pad |-> 0],
      codeSnippets |-> << [language |-> "typescript", code |-> "connect()"],
                          [language |-> "bash", code |-> "npm run"] >>],
     [name |-> "notes.mdx", path |-> "docs/chain/02-setup/notes.mdx",
      htmlUrl |-> "https://github.com/pushchain/notes",
      content |-> [s |-> "", pad |-> 0],
      codeSnippets |-> <<>>] >>

(***************************************************************************)
(* State.                                                                  *)
(***************************************************************************)
VARIABLES
  server,                \* the program this process runs: "unified", "sdk", "docs"
  docsCache,             \* unified: documents loaded at startup; docs: cached listing
  cacheTimestamp,        \* docs: when the listing was cached (0: null)
  coreAndUIKitFiles,     \* source files under packages/core, packages/ui-kit
  coreAndUIKitExports,   \* export records by kind
  coreAndUIKitPackages,  \* package descriptors
  now,                   \* Date.now()
  github,                \* the documentation files of the GitHub repository
  network,               \* "ok", or the way a request to GitHub fails
  request,               \* the request being answered (method "none" at start)
  response,              \* its outcome
  ran,                   \* the pipeline stages the call executed
  probe,                 \* a watched call and the response it got first
  process,               \* the process: its phase, exit code and data files on disk
  metadata,              \* .sdk-update-metadata.json (0: null)
  repo,                  \* the commits of the SDK repository on GitHub
  updater,               \* the checkAndUpdate call in progress, if any
  dataDir,               \* the commit the SDK data files on disk were generated from
  pending                \* docs: the calls of getDocFiles that await GitHub

vars == <<server, docsCache, cacheTimestamp, coreAndUIKitFiles, coreAndUIKitExports,
          coreAndUIKitPackages, now, github, network, request, response, ran,
          probe, process, metadata, repo, updater, dataDir, pending>>

store == <<docsCache, cacheTimestamp, coreAndUIKitFiles, coreAndUIKitExports,
           coreAndUIKitPackages>>

\* what no handler writes: the program, the clock, GitHub and the network
environment ==
  <<server, now, github, network, process, metadata, repo, updater, dataDir, pending>>

\* what the SDK updater works on
updating == <<metadata, repo, updater, dataDir>>

\* the artifacts the unified server parses at module load
SdkDataFiles ==
  {"data/sdk_complete_analysis.json", "data/sdk_file_contents.json",
   "data/sdk_complete_exports.json", "data/sdk_packages_complete.json"}

DocsDataFile == "data/docs_cache.json"

\* a file on disk parses, is not there (readFileSync throws), or holds
\* something JSON.parse throws on
ArtifactStates == {"ok", "missing", "unparsable"}

\* a process that loaded its data and connected its transport
Running(complete) ==
  [phase |-> "ready", exitCode |-> 0, autoUpdate |-> FALSE,
   files |-> [f \in SdkDataFiles \cup {DocsDataFile} |->
                IF f = DocsDataFile /\ ~complete THEN "missing" ELSE "ok"]]

\* loadMetadata when the metadata file does not exist
NoMetadata == [lastCheck |-> 0, lastUpdate |-> 0, lastCommitSha |-> 0]

\* no update check is running
NoUpdater ==
  [phase |-> "idle", forceUpdate |-> FALSE, startedAt |-> 0, latestCommit |-> 0,
   requests |-> 0, compared |-> [status |-> "none", files |-> {}],
   outcome |-> "none", previous |-> "none", runs |-> 0]

\* the two tool calls a client may have in flight
Calls == {1, 2}

\* a call that has not been made
NoCall == [phase |-> "none", now |-> 0, ok |-> FALSE, docs |-> <<>>]

NoPending == [c \in Calls |-> NoCall]

\* an installation whose updater never ran (SDK_AUTO_UPDATE=false)
UpdaterOff ==
  /\ metadata = NoMetadata
  /\ repo = <<>>
  /\ updater = NoUpdater
  /\ dataDir = [sha |-> 0, writes |-> 0, whole |-> TRUE]

\* the transport is connected and the event loop is free: execSync in
\* updateSDKData holds the only thread until the regeneration ends
Ready == process.phase = "ready" /\ updater.phase # "regenerating"

filterByPackage(path) == Includes(path, "packages/core/") \/ Includes(path, "packages/ui-kit/")

NoRequest == [server |-> "none", method |-> "none", name |-> "", args |-> Args(<<>>), uri |-> ""]
NoResponse == [kind |-> "none", isError |-> FALSE, code |-> "", text |-> <<>>]

\* no call is watched
NoProbe ==
  [name |-> "", args |-> Args(<<>>), resp |-> NoResponse, times |-> 0, between |-> FALSE]

\* the watched call keeps the response it was given first, whether it was
\* made again (times 2), and whether another request was answered after it
Probed(req, resp) ==
  IF req.method = "tools/call" /\ req.name = probe.name /\ req.args = probe.args
  THEN IF probe.times = 0
       THEN [probe EXCEPT !.resp = resp, !.times = 1]
       ELSE [probe EXCEPT !.times = 2]
  ELSE IF probe.times = 1
       THEN [probe EXCEPT !.between = TRUE]
       ELSE probe

\* module load of the unified server and of the standalone SDK server: the
\* artifacts are parsed and filtered.  `complete` FALSE is an installation
\* without docs_cache.json (docsCache falls back to []) whose packages file
\* lacks the ui-kit descriptor.
LoadSdkData(srv, n, bulk, complete) ==
    /\ server = srv
    /\ docsCache = IF complete /\ srv = "unified" THEN docsCacheData(bulk) ELSE <<>>
    /\ cacheTimestamp = 0
    /\ coreAndUIKitFiles = SelectSeq(fileContentsData(bulk), LAMBDA f : filterByPackage(f.path))
    /\ coreAndUIKitExports =
         [kind \in DOMAIN exportsDataOf(n) |->
            SelectSeq(exportsDataOf(n)[kind], LAMBDA e : filterByPackage(e.file))]
    /\ coreAndUIKitPackages =
         SelectSeq(packagesDataOf(complete),
                   LAMBDA p : p.name = "@pushchain/core" \/ p.name = "@pushchain/ui-kit")
    /\ now = 1
    /\ github = <<>>
    /\ network = "ok"
    /\ process = Running(complete)

InitSdkData(srv) ==
  \E n \in 0..MaxExports, bulk \in BulkSizes, complete \in BOOLEAN :
    LoadSdkData(srv, n, bulk, complete)

\* a request to GitHub succeeds, is rate limited (HTTP 403), or fails to
\* connect (an error that carries neither a known code nor a response)
NetworkStates == {"ok", "403", "down"}

\* module load of the standalone docs server: nothing is cached yet
InitDocs ==
  \E bulk \in BulkSizes :
    /\ server = "docs"
    /\ docsCache = <<>>
    /\ cacheTimestamp = 0
    /\ coreAndUIKitFiles = <<>>
    /\ coreAndUIKitExports = [kind \in DOMAIN exportsDataOf(0) |-> <<>>]
    /\ coreAndUIKitPackages = <<>>
    /\ now = 1
    /\ github = docsCacheData(bulk)
    /\ network \in NetworkStates
    /\ process = Running(TRUE)

Init ==
  /\ InitSdkData("unified") \/ InitSdkData("sdk") \/ InitDocs
  /\ request = NoRequest
  /\ response = NoResponse
  /\ ran = {}
  /\ probe = NoProbe
  /\ UpdaterOff
  /\ pending = NoPending

\* a store that hands a file out once: after the watched call was answered
\* the key is gone
FileAtOnce(path) ==
  LET hits == SelectSeq(coreAndUIKitFiles, LAMBDA f : f.path = path /\ probe.times = 0)
  IN IF Len(hits) = 0 THEN [found |-> FALSE, content |-> [s |-> "", pad |-> 0]]
     ELSE [found |-> TRUE, content |-> hits[1].content]

\* coreAndUIKitFiles[path] (undefined: found FALSE)
FileAt(path) ==
  LET hits == SelectSeq(coreAndUIKitFiles, LAMBDA f : f.path = path)
  IN IF Len(hits) = 0 THEN [found |-> FALSE, content |-> [s |-> "", pad |-> 0]]
     ELSE [found |-> TRUE, content |-> hits[1].content]

\* concatenation of a sequence of sequences
RECURSIVE Flatten(_)
Flatten(ss) == IF Len(ss) = 0 THEN <<>> ELSE Head(ss) \o Flatten(Tail(ss))

RECURSIVE SumSeq(_)
SumSeq(ns) == IF Len(ns) = 0 THEN 0 ELSE Head(ns) + SumSeq(Tail(ns))

\* Object.entries(coreAndUIKitExports), each record tagged with its kind
AllExports ==
  Flatten([k \in 1..Len(ExportKinds) |->
             [i \in 1..Len(coreAndUIKitExports[ExportKinds[k]]) |->
                [name |-> coreAndUIKitExports[ExportKinds[k]][i].name,
                 file |-> coreAndUIKitExports[ExportKinds[k]][i].file,
                 exportType |-> ExportKinds[k]]]])

\* a lookup that stops at the first export of the name
firstExport(name, packageFilter) ==
  LET all == SelectSeq(AllExports,
                       LAMBDA e : /\ e.name = name
                                  /\ (packageFilter = "" \/ Includes(e.file, "packages/" \o packageFilter \o "/")))
  IN IF Len(all) = 0 THEN all ELSE <<all[1]>>

\* packageFilter "" stands for null
findExport(name, packageFilter) ==
  SelectSeq(AllExports,
            LAMBDA e : /\ e.name = name
                       /\ (packageFilter = "" \/ Includes(e.file, "packages/" \o packageFilter \o "/")))

(***************************************************************************)
(* SDK lookups.  srv is "unified" (part_004) or "sdk" (index-sdk.js): the  *)
(* two servers share the lookups and differ in their message texts.        *)
(*                                                                         *)
(* The length of a serialised payload counts its strings exactly           *)
(* (JsonStrLen) and its structural characters (keys, brackets,             *)
(* indentation) by a fixed amount per item.                                *)
(***************************************************************************)
IsSpace(c) == c = " " \/ c = "\t" \/ c = "\n"

RECURSIVE trim(_)
trim(s) ==
  IF Len(s) = 0 THEN ""
  ELSE IF IsSpace(CharAt(s, 1)) THEN trim(SubSeq(s, 2, Len(s)))
  ELSE IF IsSpace(CharAt(s, Len(s))) THEN trim(SubSeq(s, 1, Len(s) - 1))
  ELSE s

RECURSIVE join(_)
join(lines) ==
  IF Len(lines) = 0 THEN ""
  ELSE IF Len(lines) = 1 THEN lines[1]
  ELSE lines[1] \o "\n" \o join(Tail(lines))

\* the lines of a file that satisfy Test, each with `around` lines of
\* context on both sides; the bulk of the file belongs to its last line
LineIndexes(lines, Test(_)) ==
  SelectSeq([i \in 1..Len(lines) |-> i], LAMBDA i : Test(lines[i]))

LineMatches(lines, idx, pad, around) ==
  [k \in 1..Len(idx) |->
     [lineNumber |-> idx[k],
      line |-> trim(lines[idx[k]]),
      context |-> join(SubSeq(lines, Max(1, idx[k] - around), Min(Len(lines), idx[k] + around))),
      contextPad |-> IF idx[k] + around >= Len(lines) THEN pad ELSE 0]]

MatchingLines(c, Test(_), around) ==
  LineMatches(split(c.s), LineIndexes(split(c.s), Test), c.pad, around)

\* the lines of a file that hold the lowered query, two lines of context each
QueryLines(content, lowerQuery) ==
  MatchingLines(content, LAMBDA l : Includes(toLowerCase(l), lowerQuery), 2)

\* results.files: the files whose path holds the query
PathMatches(pathHits) ==
  [i \in 1..Len(pathHits) |-> [path |-> pathHits[i].path, reason |-> "path match"]]

\* .slice(0, 5) of a file's matching lines
FirstFive(m) == SubSeq(m, 1, Min(5, Len(m)))

\* results.codeMatches: the other files whose content holds the query
CodeMatches(textHits, lowerQuery) ==
  [i \in 1..Len(textHits) |->
     [path |-> textHits[i].path,
      matches |-> FirstFive(QueryLines(textHits[i].content, lowerQuery))]]

SearchLowered(lowerQuery, scope) ==
  [exports |->
     IF scope \in {"all", "exports", "types"}
     THEN SelectSeq(AllExports, LAMBDA e : Includes(toLowerCase(e.name), lowerQuery))
     ELSE <<>>,
   files |->
     IF scope \in {"all", "code"}
     THEN PathMatches(SelectSeq(coreAndUIKitFiles,
                                LAMBDA f : Includes(toLowerCase(f.path), lowerQuery)))
     ELSE <<>>,
   codeMatches |->
     IF scope \in {"all", "code"}
     THEN CodeMatches(SelectSeq(coreAndUIKitFiles,
                                LAMBDA f : /\ ~Includes(toLowerCase(f.path), lowerQuery)
                                           /\ Includes(toLowerCase(f.content.s), lowerQuery)
                                           /\ Len(QueryLines(f.content, lowerQuery)) > 0),
                      lowerQuery)
     ELSE <<>>]

searchInCode(query, scope) == SearchLowered(toLowerCase(query), scope)

getPackageByName(packageName) ==
  LET fullName == CASE packageName = "core" -> "@pushchain/core"
                    [] packageName = "ui-kit" -> "@pushchain/ui-kit"
                    [] OTHER -> packageName
      hits == SelectSeq(coreAndUIKitPackages, LAMBDA p : p.name = fullName)
  IN IF Len(hits) = 0 THEN [found |-> FALSE, pkg |-> [name |-> "", version |-> ""]]
     ELSE [found |-> TRUE, pkg |-> hits[1]]

\* pkg derivation shared by get_sdk_api, get_type_definition, list_all_exports
PackageOf(file) == IF Includes(file, "/core/") THEN "@pushchain/core" ELSE "@pushchain/ui-kit"

\* the definition text extracted for an export: the span the kind's pattern
\* matches (capped for classes and functions), else 30 lines from the first
\* line holding "export" and the name, else the placeholder.  The model
\* records how it was found and how long it is; a span runs to the end of
\* the file.
ExtractDefinition(exp, name, sourceCode) ==
  LET keyword == CASE exp.exportType = "classes" -> "export class "
                   [] exp.exportType = "functions" -> "export function "
                   [] exp.exportType = "types" -> "export type "
                   [] exp.exportType = "interfaces" -> "export interface "
                   [] OTHER -> ""
      cap == CASE exp.exportType = "classes" -> 5000
               [] exp.exportType = "functions" -> 3000
               [] OTHER -> ContentLen(sourceCode)
      byPattern == keyword # "" /\ Includes(sourceCode.s, keyword \o name)
      byLine == \E i \in 1..Len(split(sourceCode.s)) :
                   /\ Includes(split(sourceCode.s)[i], "export")
                   /\ Includes(split(sourceCode.s)[i], name)
  IN IF byPattern THEN [how |-> "pattern", n |-> Min(cap, ContentLen(sourceCode))]
     ELSE IF byLine THEN [how |-> "lines", n |-> ContentLen(sourceCode)]
     ELSE [how |-> "placeholder", n |-> Len("// Use get_source_file to view complete file.")]

\* a not-found text that names no other tool
PlainNotFoundText(srv, name) == "API \"" \o name \o "\" not found."

NotFoundApiText(srv, name) ==
  IF srv = "unified"
  THEN "API \"" \o name \o "\" not found. Try 'search_sdk' or 'list_all_exports'."
  ELSE "API \"" \o name \o "\" not found in @pushchain/core or @pushchain/ui-kit.\n\nTry:\n- Check spelling and try again\n- Use 'search_sdk' tool to find similar names\n- Use 'list_all_exports' to see available APIs"

get_sdk_api(srv, params) ==
  LET exports == findExport(params.name.s,
                            IF params.package.s = "any" THEN "" ELSE params.package.s)
      results == [i \in 1..Len(exports) |->
                    LET f == FileAt(exports[i].file)
                    IN [name |-> exports[i].name,
                        type |-> exports[i].exportType,
                        package |-> PackageOf(exports[i].file),
                        file |-> exports[i].file,
                        definition |-> ExtractDefinition(exports[i], params.name.s, f.content)]]
      n == 2 + SumSeq([i \in 1..Len(results) |->
                         100 + JsonStrLen(results[i].name) + JsonStrLen(results[i].type)
                         + JsonStrLen(results[i].package) + JsonStrLen(results[i].file)
                         + results[i].definition.n])
  IN IF Len(exports) = 0
     THEN createErrorResponse(S(NotFoundApiText(srv, params.name.s)))
     ELSE createSuccessResponse(enforceCharacterLimit(Json(results, n), CHARACTER_LIMIT).text)

\* the summary object of search_sdk: each list cut to its first `limit`
\* items, the pagination metadata over the three totals together
SearchSummary(srv, params, results) ==
  [query |-> IF srv = "unified" THEN sanitizeInput(params.query.s) ELSE params.query.s,
   scope |-> params.scope.s,
   results |-> [exports |-> truncateArray(results.exports, params.limit.i).items,
                files |-> truncateArray(results.files, params.limit.i).items,
                codeMatches |-> truncateArray(results.codeMatches, params.limit.i).items],
   totalFound |-> [exports |-> Len(results.exports),
                   files |-> Len(results.files),
                   codeMatches |-> Len(results.codeMatches)],
   pagination |-> formatPaginationMetadata(
                    Len(results.exports) + Len(results.files) + Len(results.codeMatches),
                    params.offset.i, params.limit.i)]

\* the length of JSON.stringify(matches, null, 2) of one file's matches
MatchesJsonLen(matches) ==
  SumSeq([j \in 1..Len(matches) |->
            60 + JsonStrLen(matches[j].line) + JsonStrLen(matches[j].context)
            + matches[j].contextPad])

\* the length of JSON.stringify(summary, null, 2)
SummaryJsonLen(summary) ==
  300 + JsonStrLen(summary.query)
  + SumSeq([i \in 1..Len(summary.results.exports) |->
              60 + JsonStrLen(summary.results.exports[i].name)
              + JsonStrLen(summary.results.exports[i].file)
              + JsonStrLen(summary.results.exports[i].exportType)])
  + SumSeq([i \in 1..Len(summary.results.files) |->
              50 + JsonStrLen(summary.results.files[i].path)])
  + SumSeq([i \in 1..Len(summary.results.codeMatches) |->
              40 + JsonStrLen(summary.results.codeMatches[i].path)
              + MatchesJsonLen(summary.results.codeMatches[i].matches)])

\* JSON.stringify, enforceCharacterLimit, createSuccessResponse
SearchResponse(summary) ==
  createSuccessResponse(
    enforceCharacterLimit(Json(summary, SummaryJsonLen(summary)), CHARACTER_LIMIT).text)

search_sdk(srv, params) ==
  SearchResponse(SearchSummary(srv, params, searchInCode(params.query.s, params.scope.s)))

get_package_info(srv, params) ==
  LET found == getPackageByName(params.package.s)
      inPkg(kind) == SelectSeq(coreAndUIKitExports[kind],
                               LAMBDA e : Includes(e.file, "packages/" \o params.package.s \o "/"))
      top(kind) == [i \in 1..Min(10, Len(inPkg(kind))) |-> inPkg(kind)[i].name]
      info ==
        [name |-> found.pkg.name,
         version |-> found.pkg.version,
         statistics |-> [totalExports |-> SumSeq([k \in 1..Len(ExportKinds) |-> Len(inPkg(ExportKinds[k]))]),
                         functions |-> Len(inPkg("functions")),
                         classes |-> Len(inPkg("classes")),
                         types |-> Len(inPkg("types")),
                         interfaces |-> Len(inPkg("interfaces")),
                         constants |-> Len(inPkg("constants"))],
         topExports |-> [kind \in DOMAIN coreAndUIKitExports |-> top(kind)]]
      n == 400 + JsonStrLen(info.name) + JsonStrLen(info.version)
           + SumSeq([k \in 1..Len(ExportKinds) |->
                       SumSeq([i \in 1..Len(top(ExportKinds[k])) |->
                                 8 + JsonStrLen(top(ExportKinds[k])[i])])])
  IN IF ~found.found
     THEN createErrorResponse(S("Package \"" \o params.package.s \o "\" not found. Valid: 'core' or 'ui-kit'"))
     ELSE createSuccessResponse(enforceCharacterLimit(Json(info, n), CHARACTER_LIMIT).text)

NotFoundTypeText(srv, name) ==
  IF srv = "unified"
  THEN "Type \"" \o name \o "\" not found. Try 'search_sdk' to find similar types."
  ELSE "Type \"" \o name \o "\" not found.\n\nTry:\n- Use 'search_sdk' to find similar type names\n- Use 'list_all_exports' with type='types' to see all available types"

get_type_definition(srv, params) ==
  LET types == SelectSeq(coreAndUIKitExports["types"] \o coreAndUIKitExports["interfaces"],
                         LAMBDA t : t.name = params.name.s)
      results == [i \in 1..Len(types) |->
                    LET f == FileAt(types[i].file)
                        byPattern == \/ Includes(f.content.s, "export type " \o params.name.s)
                                     \/ Includes(f.content.s, "export interface " \o params.name.s)
                    IN [name |-> types[i].name,
                        type |-> "type",
                        package |-> PackageOf(types[i].file),
                        file |-> types[i].file,
                        definition |-> IF byPattern
                                       THEN [how |-> "pattern", n |-> ContentLen(f.content)]
                                       ELSE [how |-> "placeholder",
                                             n |-> Len("// Definition found in " \o types[i].file)],
                        fullSource |-> [file |-> types[i].file,
                                        n |-> JsonStrLen(f.content.s) + f.content.pad]]]
      n == 2 + SumSeq([i \in 1..Len(results) |->
                         120 + JsonStrLen(results[i].name) + JsonStrLen(results[i].package)
                         + JsonStrLen(results[i].file) + results[i].definition.n
                         + results[i].fullSource.n])
  IN IF Len(types) = 0
     THEN createErrorResponse(S(NotFoundTypeText(srv, params.name.s)))
     ELSE createSuccessResponse(enforceCharacterLimit(Json(results, n), CHARACTER_LIMIT).text)

NotFoundFileText(srv, path) ==
  IF srv = "unified"
  THEN "File \"" \o path \o "\" not found in @pushchain/core or @pushchain/ui-kit."
  ELSE "File \"" \o path \o "\" not found in @pushchain/core or @pushchain/ui-kit.\n\nEnsure path starts with 'packages/core/' or 'packages/ui-kit/'"

\* if (!sourceCode): an absent key and an empty file alike.  The code fence
\* (three backquotes) is written ~~~.
get_source_file(srv, params) ==
  LET f == FileAt(params.path.s)
      responseText == S("# " \o params.path.s \o "\n\n~~~typescript\n")
                      \o ContentText(params.path.s, f.content)
                      \o S("\n~~~")
  IN IF ~f.found \/ ContentLen(f.content) = 0
     THEN createErrorResponse(S(NotFoundFileText(srv, params.path.s)))
     ELSE createSuccessResponse(enforceCharacterLimit(responseText, CHARACTER_LIMIT).text)

list_all_exports(srv, params) ==
  LET packageFilter == IF params.package.s # "both" THEN params.package.s ELSE ""
      typeFilter == params.type.s
      kinds == {ExportKinds[k] : k \in 1..Len(ExportKinds)}
      listed(kind) ==
        LET sel == SelectSeq(coreAndUIKitExports[kind],
                             LAMBDA e : packageFilter = ""
                                        \/ Includes(e.file, "packages/" \o packageFilter \o "/"))
        IN [i \in 1..Len(sel) |->
              [name |-> sel[i].name, package |-> PackageOf(sel[i].file), file |-> sel[i].file]]
      exports == [kind \in {k \in kinds : typeFilter = "all" \/ k = typeFilter} |-> listed(kind)]
      n == 2 + SumSeq([k \in 1..Len(ExportKinds) |->
                         IF ExportKinds[k] \in DOMAIN exports
                         THEN 20 + SumSeq([i \in 1..Len(exports[ExportKinds[k]]) |->
                                             60 + JsonStrLen(exports[ExportKinds[k]][i].name)
                                             + JsonStrLen(exports[ExportKinds[k]][i].package)
                                             + JsonStrLen(exports[ExportKinds[k]][i].file)])
                         ELSE 0])
  IN createSuccessResponse(enforceCharacterLimit(Json(exports, n), CHARACTER_LIMIT).text)

\* the examples one file adds
FileExamples(path, m) ==
  [k \in 1..Len(m) |->
     [file |-> path, lineNumber |-> m[k].lineNumber, line |-> m[k].line,
      context |-> m[k].context, contextPad |-> m[k].contextPad]]

\* the lines of a file that hold the name and are no line comment, three
\* lines of context each
UsageLines(content, api_name) ==
  MatchingLines(content, LAMBDA l : Includes(l, api_name) /\ ~StartsWith(trim(l), "//"), 3)

\* the loop over the files: a file's examples are all added, and the loop
\* stops after the file that brings the count to limit
RECURSIVE CollectExamples(_, _, _, _)
CollectFrom(api_name, limit, i, more) ==
  IF Len(more) >= limit THEN more ELSE CollectExamples(api_name, limit, i + 1, more)

CollectExamples(api_name, limit, i, examples) ==
  IF i > Len(coreAndUIKitFiles) THEN examples
  ELSE CollectFrom(api_name, limit, i,
                   examples \o FileExamples(coreAndUIKitFiles[i].path,
                                            UsageLines(coreAndUIKitFiles[i].content, api_name)))

\* the result object of find_usage_examples
ExamplesResult(api_name, truncated) ==
  [api |-> api_name,
   totalExamples |-> truncated.total,
   showing |-> truncated.showing,
   examples |-> truncated.items]

\* the length of JSON.stringify(result, null, 2)
ExamplesJsonLen(result) ==
  80 + JsonStrLen(result.api)
  + SumSeq([i \in 1..Len(result.examples) |->
              80 + JsonStrLen(result.examples[i].file) + JsonStrLen(result.examples[i].line)
              + JsonStrLen(result.examples[i].context) + result.examples[i].contextPad])

ExamplesResponse(result) ==
  createSuccessResponse(
    enforceCharacterLimit(Json(result, ExamplesJsonLen(result)), CHARACTER_LIMIT).text)

find_usage_examples(srv, params) ==
  ExamplesResponse(
    ExamplesResult(params.api_name.s,
                   truncateArray(CollectExamples(params.api_name.s, params.limit.i, 1, <<>>),
                                 params.limit.i)))

\* the method names and the signature are read off the class's source by
\* patterns; the model keeps which source they come from and the signature's
\* length (at most 800 characters after the opening brace)
get_core_classes(srv, params) ==
  LET sel == SelectSeq(coreAndUIKitExports["classes"],
                       LAMBDA c : Includes(c.file, "packages/core/"))
      coreClasses ==
        [i \in 1..Len(sel) |->
           LET f == FileAt(sel[i].file)
               signed == Includes(f.content.s, "export class " \o sel[i].name)
           IN [name |-> sel[i].name,
               file |-> sel[i].file,
               methodsOf |-> sel[i].file,
               signature |-> IF signed THEN Min(ContentLen(f.content), 900) ELSE 0]]
      result == [totalClasses |-> Len(coreClasses), classes |-> coreClasses]
      n == 120 + SumSeq([i \in 1..Len(coreClasses) |->
                           160 + JsonStrLen(coreClasses[i].name) + JsonStrLen(coreClasses[i].file)
                           + coreClasses[i].signature])
  IN createSuccessResponse(enforceCharacterLimit(Json(result, n), CHARACTER_LIMIT).text)

get_ui_components(srv, params) ==
  LET sel == SelectSeq(coreAndUIKitExports["functions"],
                       LAMBDA f : Includes(f.file, "packages/ui-kit/"))
      entry(f) == [name |-> f.name, file |-> f.file,
                   signature |-> IF Includes(FileAt(f.file).content.s, "export " \o f.name)
                                    \/ Includes(FileAt(f.file).content.s, "export const " \o f.name)
                                 THEN Min(ContentLen(FileAt(f.file).content), 560) ELSE 0]
      hooks == SelectSeq(sel, LAMBDA f : StartsWith(f.name, "use"))
      providers == SelectSeq(sel, LAMBDA f : ~StartsWith(f.name, "use") /\ Includes(f.name, "Provider"))
      components == SelectSeq(sel, LAMBDA f : ~StartsWith(f.name, "use") /\ ~Includes(f.name, "Provider"))
      result == [summary |-> [totalComponents |-> Len(components),
                              totalHooks |-> Len(hooks),
                              totalProviders |-> Len(providers)],
                 components |-> [i \in 1..Len(components) |-> entry(components[i])],
                 hooks |-> [i \in 1..Len(hooks) |-> entry(hooks[i])],
                 providers |-> [i \in 1..Len(providers) |-> entry(providers[i])]]
      n == 200 + SumSeq([i \in 1..Len(sel) |->
                           60 + JsonStrLen(sel[i].name) + JsonStrLen(sel[i].file)
                           + entry(sel[i]).signature])
  IN createSuccessResponse(enforceCharacterLimit(Json(result, n), CHARACTER_LIMIT).text)

(***************************************************************************)
(* Documentation lookups.  srv is "unified" (part_004: the documents and   *)
(* their contents come from the docsCache loaded at startup) or "docs"     *)
(* (index.js: the listing is cached for CACHE_TTL and every content is     *)
(* fetched from GitHub when it is needed).                                 *)
(***************************************************************************)
\* part_004: the documents loaded at startup
getDocFiles == docsCache

\* a cache that never expires
CacheKept == cacheTimestamp # 0

\* index.js getDocFiles: the cache serves while it is younger than CACHE_TTL
\* (docsCache and cacheTimestamp are assigned together; 0 stands for null)
CacheFresh == cacheTimestamp # 0 /\ now - cacheTimestamp < CACHE_TTL

\* index.js getDocFiles, when it returns: the cache, or the fresh listing
FetchedDocFiles == IF CacheFresh THEN docsCache ELSE github

\* the documents a docs handler works on
DocFiles(srv) == IF srv = "docs" THEN FetchedDocFiles ELSE getDocFiles

\* fetchFileContent succeeds (the unified server reads doc.content)
ContentFetched(srv) == srv # "docs" \/ network = "ok"

\* the fields a listed document carries: the standalone server's listing
\* holds neither content nor snippets
Listed(srv, doc) ==
  IF srv = "docs"
  THEN [doc EXCEPT !.content = [s |-> "", pad |-> 0], !.codeSnippets = <<>>]
  ELSE doc

\* the text the outer catch of a standalone server would give the failure
UnexpectedErrorText(status) == "Unexpected error: fetch failed"

\* handleGitHubApiError for an HTTP status; "down" is a failed connection,
\* which carries neither code nor response
handleGitHubApiError(status) ==
  CASE status = "404" ->
         "Error: Documentation file not found on GitHub. Use the 'list_push_chain_docs' tool to see all available documentation files."
    [] status = "403" ->
         "Error: GitHub API rate limit exceeded. This server uses 30-minute caching to minimize requests. Please wait approximately 1 hour for the rate limit to reset, or try again later."
    [] status = "422" ->
         "Error: Invalid request to GitHub API. Please check that the file path is correctly formatted (e.g., 'docs/chain/filename.mdx')."
    [] status \in {"500", "502", "503"} ->
         "Error: GitHub is experiencing server issues (status " \o status \o "). Please try again in a few minutes."
    [] status = "down" -> "Error: An unexpected error occurred: fetch failed"
    [] OTHER -> "Error: GitHub API request failed with status " \o status \o ". Please try again later."

\* the category a path is organised under
CategoryOf(path) ==
  CASE Includes(toLowerCase(path), "/01-tutorials/") -> "tutorials"
    [] Includes(toLowerCase(path), "/02-setup/") -> "setup"
    [] Includes(toLowerCase(path), "/03-build/") -> "build"
    [] Includes(toLowerCase(path), "/04-ui-kit/") -> "ui-kit"
    [] Includes(toLowerCase(path), "/05-deep-dives/") -> "deep-dives"
    [] OTHER -> "other"

CategoryMarker(category) ==
  CASE category = "tutorials" -> "/01-tutorials/"
    [] category = "setup" -> "/02-setup/"
    [] category = "build" -> "/03-build/"
    [] category = "ui-kit" -> "/04-ui-kit/"
    [] category = "deep-dives" -> "/05-deep-dives/"
    [] OTHER -> ""

\* characters of a document object inside a serialised payload
DocJsonLen(doc) ==
  120 + JsonStrLen(doc.name) + JsonStrLen(doc.path) + JsonStrLen(doc.htmlUrl)
  + JsonStrLen(doc.content.s) + doc.content.pad
  + SumSeq([i \in 1..Len(doc.codeSnippets) |->
              40 + JsonStrLen(doc.codeSnippets[i].language) + JsonStrLen(doc.codeSnippets[i].code)])

\* the documents of the category asked for
FilterDocs(docs, category) ==
  IF category # "all"
  THEN SelectSeq(docs, LAMBDA d : Includes(toLowerCase(d.path), CategoryMarker(category)))
  ELSE docs

\* JSON.stringify({total, categories, message}), limited
ListDocsResponse(srv, filteredDocs) ==
  createSuccessResponse(
    enforceCharacterLimit(
      Json([total |-> Len(filteredDocs),
            categories |->
              [c \in {"tutorials", "setup", "build", "ui-kit", "deep-dives", "other"} |->
                 SelectSeq(filteredDocs, LAMBDA d : CategoryOf(d.path) = c)]],
           200 + SumSeq([i \in 1..Len(filteredDocs) |-> DocJsonLen(Listed(srv, filteredDocs[i]))])),
      CHARACTER_LIMIT).text)

list_push_chain_docs(srv, params) ==
  ListDocsResponse(srv, FilterDocs(DocFiles(srv), params.category.s))

NotFoundDocText(srv, path) ==
  IF srv = "docs"
  THEN "Documentation file not found: " \o path
       \o "\n\nUse the 'list_push_chain_docs' tool to see all available documentation files.\n\nAvailable paths:\n"
  ELSE "Documentation file not found: " \o path
       \o "\n\nUse 'list_push_chain_docs' to see available files."

\* the not-found message of the standalone server lists up to ten paths
NotFoundDocPathsLen(srv, docs) ==
  IF srv = "docs"
  THEN SumSeq([i \in 1..Min(10, Len(docs)) |-> 5 + Len(docs[i].path)]) + 20
  ELSE 0

\* the document in the format asked for
DocText(format, doc) ==
  IF format = "json"
  THEN Json([name |-> doc.name, path |-> doc.path, url |-> doc.htmlUrl,
             content |-> doc.path, codeSnippets |-> doc.codeSnippets],
            DocJsonLen(doc))
  ELSE S("# " \o doc.name \o "\n\nPath: " \o doc.path \o "\nURL: " \o doc.htmlUrl \o "\n\n---\n\n")
       \o ContentText(doc.path, doc.content)

GetDocResponse(srv, params, docs, hits) ==
  IF Len(hits) = 0
  THEN createErrorResponse(
         S(NotFoundDocText(srv, params.path.s))
         \o (IF srv = "docs"
             THEN <<[k |-> "fill", n |-> NotFoundDocPathsLen(srv, docs), of |-> "paths"]>>
             ELSE <<>>))
  ELSE IF ~ContentFetched(srv)
  THEN createErrorResponse(S(handleGitHubApiError(network)))
  ELSE createSuccessResponse(
         enforceCharacterLimit(DocText(params.response_format.s, hits[1]), CHARACTER_LIMIT).text)

get_push_chain_doc(srv, params) ==
  GetDocResponse(srv, params, DocFiles(srv),
                 SelectSeq(DocFiles(srv), LAMBDA d : d.path = params.path.s))

\* the lines of a document that hold the lowered query
HoldingLines(content, query) ==
  SelectSeq(split(content.s), LAMBDA l : Includes(toLowerCase(l), query))

\* .slice(0, 3).join('\n')
Preview(lines) == join(SubSeq(lines, 1, Min(3, Len(lines))))

\* results.push({...doc, matchType: "content", preview})
ContentResult(srv, doc, query) ==
  [name |-> doc.name, path |-> doc.path, htmlUrl |-> doc.htmlUrl,
   content |-> Listed(srv, doc).content, codeSnippets |-> Listed(srv, doc).codeSnippets,
   matchType |-> "content", preview |-> Preview(HoldingLines(doc.content, query))]

\* the second loop of the search: documents not yet listed whose content
\* holds the query (a content that cannot be fetched is skipped); the loop
\* ends once limit results are gathered
RECURSIVE ContentPass(_, _, _, _, _, _)
ContentNext(srv, docs, query, limit, i, more) ==
  IF Len(more) >= limit THEN more ELSE ContentPass(srv, docs, query, limit, i + 1, more)

ContentPass(srv, docs, query, limit, i, results) ==
  IF i > Len(docs) THEN results
  ELSE IF \E r \in 1..Len(results) : results[r].path = docs[i].path
       THEN ContentPass(srv, docs, query, limit, i + 1, results)
       ELSE ContentNext(srv, docs, query, limit, i,
                        IF ContentFetched(srv) /\ Includes(toLowerCase(docs[i].content.s), query)
                        THEN Append(results, ContentResult(srv, docs[i], query))
                        ELSE results)

\* formatPaginationText(total, 0, limit, showing)
formatPaginationText(total, offset, limit, showing) ==
  <<[k |-> "pagination",
     n |-> 60 + Digits(showing) + Digits(offset + 1) + Digits(offset + showing) + Digits(total)
           + (IF offset + showing < total
              THEN 150 + Digits(limit) + Digits(offset) + Digits(offset + limit) ELSE 0),
     of |-> [showing |-> showing, start |-> offset + 1, end |-> offset + showing,
             total |-> total, hasMore |-> offset + showing < total]]>>

\* the first loop of the search: the documents whose name or path holds
\* the lowered query
FilenameResults(srv, byName) ==
  [i \in 1..Len(byName) |->
     [name |-> byName[i].name, path |-> byName[i].path, htmlUrl |-> byName[i].htmlUrl,
      content |-> Listed(srv, byName[i]).content,
      codeSnippets |-> Listed(srv, byName[i]).codeSnippets,
      matchType |-> "filename", preview |-> ""]]

\* a search that gathers the content matches on their own and puts them
\* ahead of the filename matches
ContentMatchesFirst(srv, docs, query, limit, filenameResults) ==
  ContentPass(srv, docs, query, limit, 1, <<>>) \o filenameResults

\* the content pass runs when the first loop found fewer than five
SearchDocuments(srv, docs, query, limit, filenameResults) ==
  IF Len(filenameResults) < 5
  THEN ContentPass(srv, docs, query, limit, 1, filenameResults)
  ELSE filenameResults

\* the length of the serialised result items
SearchItemsJsonLen(items) ==
  SumSeq([i \in 1..Len(items) |-> DocJsonLen(items[i]) + JsonStrLen(items[i].preview)])

\* the length of the markdown list of the result items
SearchItemsListLen(items) ==
  SumSeq([i \in 1..Len(items) |->
            20 + Len(items[i].name) + Len(items[i].path) + Len(items[i].htmlUrl)
            + Len(items[i].preview)])

\* the response text in the format asked for; the standalone server adds
\* the truncation message and a summary line, the unified server the
\* pagination text
SearchDocsText(srv, format, shownQuery, limit, total, truncated) ==
  IF format = "json"
  THEN Json([query |-> shownQuery, results |-> truncated.items,
             total |-> truncated.total, showing |-> truncated.showing],
            80 + JsonStrLen(shownQuery) + SearchItemsJsonLen(truncated.items)
            + (IF srv = "docs" THEN 160 + Len(shownQuery) ELSE 0))
  ELSE S("# Search Results: '" \o shownQuery \o "'\n\nFound ")
       \o <<[k |-> "markdown",
             n |-> Digits(truncated.total) + 10 + SearchItemsListLen(truncated.items)
                   + (IF srv = "docs" /\ truncated.truncated THEN 120 ELSE 0),
             of |-> truncated.items]>>
       \o (IF srv = "docs" THEN <<>>
           ELSE formatPaginationText(total, 0, limit, truncated.showing))

NoDocsFoundText(srv, shownQuery) ==
  IF srv = "docs"
  THEN "No documentation found matching '" \o shownQuery
       \o "'.\n\nTry:\n- Using different search terms\n- Browsing by category with 'list_push_chain_docs'\n- Using more specific keywords"
  ELSE "No documentation found matching '" \o shownQuery \o "'."

\* no result: the message is returned as it is
SearchDocsResponse(srv, params, shownQuery, results) ==
  IF Len(results) = 0
  THEN createSuccessResponse(S(NoDocsFoundText(srv, shownQuery)))
  ELSE createSuccessResponse(
         enforceCharacterLimit(
           SearchDocsText(srv, params.response_format.s, shownQuery, params.limit.i,
                          Len(results), truncateArray(results, params.limit.i)),
           CHARACTER_LIMIT).text)

\* the unified server shows the sanitized query, the standalone server the
\* query as given
search_push_chain_docs(srv, params) ==
  SearchDocsResponse(
    srv, params,
    IF srv = "docs" THEN params.query.s ELSE sanitizeInput(params.query.s),
    SearchDocuments(
      srv, DocFiles(srv), toLowerCase(params.query.s), params.limit.i,
      FilenameResults(
        srv,
        SelectSeq(DocFiles(srv),
                  LAMBDA d : \/ Includes(toLowerCase(d.name), toLowerCase(params.query.s))
                             \/ Includes(toLowerCase(d.path), toLowerCase(params.query.s))))))

\* the snippets of one document in the language asked for (Undef: all)
DocSnippets(doc, language) ==
  IF language # Undef
  THEN SelectSeq(doc.codeSnippets,
                 LAMBDA sn : toLowerCase(sn.language) = toLowerCase(language.s))
  ELSE doc.codeSnippets

SnippetsFrom(path, docSnippets) ==
  [k \in 1..Len(docSnippets) |->
     [source |-> path, language |-> docSnippets[k].language, code |-> trim(docSnippets[k].code)]]

\* the loop over the target documents: a document's snippets are all added,
\* and the loop stops after the document that brings the count to limit; a
\* document whose content cannot be fetched is skipped
RECURSIVE CollectSnippets(_, _, _, _, _, _)
SnippetsNext(srv, targetDocs, language, limit, i, more) ==
  IF Len(more) >= limit THEN more
  ELSE CollectSnippets(srv, targetDocs, language, limit, i + 1, more)

CollectSnippets(srv, targetDocs, language, limit, i, snippets) ==
  IF i > Len(targetDocs) THEN snippets
  ELSE IF ~ContentFetched(srv)
       THEN CollectSnippets(srv, targetDocs, language, limit, i + 1, snippets)
       ELSE SnippetsNext(srv, targetDocs, language, limit, i,
                         snippets \o SnippetsFrom(targetDocs[i].path,
                                                  DocSnippets(targetDocs[i], language)))

SnippetsJsonLen(items) ==
  100 + SumSeq([i \in 1..Len(items) |->
                  60 + JsonStrLen(items[i].source) + JsonStrLen(items[i].language)
                  + JsonStrLen(items[i].code)])

SnippetsResponse(srv, params, truncated) ==
  createSuccessResponse(
    enforceCharacterLimit(
      Json([total |-> truncated.total, showing |-> truncated.showing,
            language |-> IF params.language # Undef THEN params.language.s ELSE "all",
            snippets |-> truncated.items],
           SnippetsJsonLen(truncated.items)
           + (IF srv = "docs" /\ truncated.truncated THEN 120 ELSE 0)),
      CHARACTER_LIMIT).text)

\* if (params.path), if (params.language): an empty string filters nothing
TargetDocs(docs, path) ==
  IF path # Undef /\ path.s # "" THEN SelectSeq(docs, LAMBDA d : d.path = path.s) ELSE docs

get_code_snippets(srv, params) ==
  SnippetsResponse(
    srv, params,
    truncateArray(CollectSnippets(srv, TargetDocs(DocFiles(srv), params.path),
                                  params.language, params.limit.i, 1, <<>>),
                  params.limit.i))

(***************************************************************************)
(* Tool Dispatcher.                                                        *)
(***************************************************************************)
DocsTools == {"list_push_chain_docs", "get_push_chain_doc", "search_push_chain_docs",
              "get_code_snippets"}

SdkTools == {"get_sdk_api", "search_sdk", "get_package_info", "get_type_definition",
             "get_source_file", "list_all_exports", "find_usage_examples",
             "get_core_classes", "get_ui_components"}

\* the schema each case of the switch parses the arguments with
ToolSchema(name) ==
  CASE name = "list_push_chain_docs" -> ListDocsInputSchema
    [] name = "get_push_chain_doc" -> GetDocInputSchema
    [] name = "search_push_chain_docs" -> SearchDocsInputSchema
    [] name = "get_code_snippets" -> GetCodeSnippetsInputSchema
    [] name = "get_sdk_api" -> GetSdkApiInputSchema
    [] name = "search_sdk" -> SearchSdkInputSchema
    [] name = "get_package_info" -> GetPackageInfoInputSchema
    [] name = "get_type_definition" -> GetTypeDefinitionInputSchema
    [] name = "get_source_file" -> GetSourceFileInputSchema
    [] name = "list_all_exports" -> ListAllExportsInputSchema
    [] name = "find_usage_examples" -> FindUsageExamplesInputSchema
    [] name = "get_core_classes" -> GetCoreClassesInputSchema
    [] OTHER -> GetUIComponentsInputSchema

\* the inner try block of each case
ToolLookup(srv, name, params) ==
  CASE name = "list_push_chain_docs" -> list_push_chain_docs(srv, params)
    [] name = "get_push_chain_doc" -> get_push_chain_doc(srv, params)
    [] name = "search_push_chain_docs" -> search_push_chain_docs(srv, params)
    [] name = "get_code_snippets" -> get_code_snippets(srv, params)
    [] name = "get_sdk_api" -> get_sdk_api(srv, params)
    [] name = "search_sdk" -> search_sdk(srv, params)
    [] name = "get_package_info" -> get_package_info(srv, params)
    [] name = "get_type_definition" -> get_type_definition(srv, params)
    [] name = "get_source_file" -> get_source_file(srv, params)
    [] name = "list_all_exports" -> list_all_exports(srv, params)
    [] name = "find_usage_examples" -> find_usage_examples(srv, params)
    [] name = "get_core_classes" -> get_core_classes(srv, params)
    [] OTHER -> get_ui_components(srv, params)

\* the catch block wraps what is no ZodError as an internal error; were the
\* McpError of the default case not rethrown, it would be wrapped too
DefaultCaseWrapped(name) ==
  McpError("InternalError", S("Unexpected error: Unknown tool: " \o name))

\* default case of the unified server's switch
UnifiedDefaultCase(name) == McpError("MethodNotFound", S("Unknown tool: " \o name))

\* default case of a standalone server's switch
StandaloneDefaultCase(name) == createErrorResponse(S("Unknown tool: " \o name))

\* CallToolRequestSchema handler of the unified server: a ZodError becomes
\* McpError(InvalidParams), the default case throws McpError(MethodNotFound)
UnifiedCallTool(name, args) ==
  IF name \notin DocsTools \cup SdkTools
  THEN [resp |-> UnifiedDefaultCase(name), ran |-> {}]
  ELSE LET parsed == SchemaParse(ToolSchema(name), args)
       IN IF ~parsed.ok
          THEN [resp |-> McpError("InvalidParams", handleValidationError(parsed.issues)),
                ran |-> {"validator"}]
          ELSE [resp |-> ToolLookup("unified", name, parsed.params),
                ran |-> {"validator", "lookup"}]

\* CallToolRequestSchema handler of the standalone SDK server: every failure
\* is an isError envelope
SdkCallTool(name, args) ==
  IF name \notin SdkTools
  THEN [resp |-> StandaloneDefaultCase(name), ran |-> {}]
  ELSE LET parsed == SchemaParse(ToolSchema(name), args)
       IN IF ~parsed.ok
          THEN [resp |-> createErrorResponse(handleValidationError(parsed.issues)),
                ran |-> {"validator"}]
          ELSE [resp |-> ToolLookup("sdk", name, parsed.params),
                ran |-> {"validator", "lookup"}]

\* getDocFiles of the standalone docs server has to fetch and cannot
ListingFails == ~CacheFresh /\ network # "ok"

\* CallToolRequestSchema handler of the standalone docs server: every
\* failure is an isError envelope; `fetched` tells that getDocFiles cached a
\* fresh listing
DocsCallTool(name, args) ==
  IF name \notin DocsTools
  THEN [resp |-> StandaloneDefaultCase(name), ran |-> {}, fetched |-> FALSE]
  ELSE LET parsed == SchemaParse(ToolSchema(name), args)
       IN IF ~parsed.ok
          THEN [resp |-> createErrorResponse(handleValidationError(parsed.issues)),
                ran |-> {"validator"}, fetched |-> FALSE]
          ELSE IF ListingFails
          THEN [resp |-> createErrorResponse(S(handleGitHubApiError(network))),
                ran |-> {"validator", "lookup"}, fetched |-> FALSE]
          ELSE [resp |-> ToolLookup("docs", name, parsed.params),
                ran |-> {"validator", "lookup"}, fetched |-> ~CacheFresh]

(***************************************************************************)
(* Resource reading.                                                       *)
(***************************************************************************)
\* uri.replace(prefix, "") for a prefix the uri may start with
StripPrefix(uri, prefix) ==
  IF StartsWith(uri, prefix) THEN SubSeq(uri, Len(prefix) + 1, Len(uri)) ELSE uri

ReadContents(text) == [kind |-> "contents", isError |-> FALSE, code |-> "", text |-> text]

\* a thrown Error: the protocol layer answers with an error response
ThrownError(message) == [kind |-> "error", isError |-> FALSE, code |-> "InternalError", text |-> S(message)]

\* ReadResourceRequestSchema handler of the unified server
UnifiedReadResource(uri) ==
  IF StartsWith(uri, "pushchain://docs/")
  THEN LET path == StripPrefix(uri, "pushchain://docs/")
           hits == SelectSeq(getDocFiles, LAMBDA d : d.path = path)
       IN IF Len(hits) = 0
          THEN ThrownError("Error: An unexpected error occurred: Documentation not found: " \o path)
          ELSE ReadContents(ContentText(path, hits[1].content))
  ELSE IF StartsWith(uri, "pushchain://sdk/")
  THEN LET path == StripPrefix(StripPrefix(uri, "pushchain://sdk/core/"), "pushchain://sdk/ui-kit/")
           f == FileAt(path)
       IN IF ~f.found \/ ContentLen(f.content) = 0
          THEN ThrownError("Resource not found: " \o path)
          ELSE ReadContents(ContentText(path, f.content))
  ELSE ThrownError("Invalid URI: " \o uri)

\* ReadResourceRequestSchema handler of the standalone SDK server
SdkReadResource(uri) ==
  IF ~StartsWith(uri, "pushchain://")
  THEN ThrownError("Invalid URI: " \o uri)
  ELSE LET path == StripPrefix(StripPrefix(uri, "pushchain://core/"), "pushchain://ui-kit/")
           f == FileAt(path)
       IN IF ~f.found \/ ContentLen(f.content) = 0
          THEN ThrownError("Resource not found: " \o path)
          ELSE ReadContents(ContentText(path, f.content))

\* the document of the listing with this path, its content fetched
DocContents(path, hits) ==
  IF Len(hits) = 0
  THEN ThrownError("Error: An unexpected error occurred: Documentation not found: " \o path)
  ELSE IF network # "ok" THEN ThrownError(handleGitHubApiError(network))
  ELSE ReadContents(ContentText(path, hits[1].content))

\* ReadResourceRequestSchema handler of the standalone docs server
DocsReadResource(uri) ==
  IF ~StartsWith(uri, "pushchain://docs/")
  THEN [resp |-> ThrownError("Invalid URI: " \o uri), ran |-> {}, fetched |-> FALSE]
  ELSE IF ListingFails
  THEN [resp |-> ThrownError(handleGitHubApiError(network)), ran |-> {"lookup"},
        fetched |-> FALSE]
  ELSE [resp |-> DocContents(StripPrefix(uri, "pushchain://docs/"),
                             SelectSeq(FetchedDocFiles,
                                       LAMBDA d : d.path = StripPrefix(uri, "pushchain://docs/"))),
        ran |-> {"lookup"}, fetched |-> ~CacheFresh]

(***************************************************************************)
(* Inputs of the model.                                                    *)
(***************************************************************************)
ExtraValues == {Undef, Str("x")}
LimitValues == {Undef, Str("2"), Str("not-a-number")} \cup {Num(i) : i \in 0..MaxLimit}
OffsetValues == {Undef} \cup {Num(i) : i \in (0 - 1)..MaxOffset}
NameValues == {Undef, Str(""), Str("PushClient"), Str("PushConfig"), Str("DoesNotExist123")}

ToolArgs(name) ==
  CASE name = "get_sdk_api" ->
         {Args([name |-> n, package |-> p, extra |-> x]) :
            n \in NameValues, p \in {Undef, Str("core"), Str("ui-kit"), Str("any"), Str("all")},
            x \in ExtraValues}
    [] name = "search_sdk" ->
         {Args([query |-> q, scope |-> sc, limit |-> l, offset |-> o, extra |-> x]) :
            q \in {Undef, Str("push"), Str("client"), Str("zz")},
            sc \in {Undef, Str("code"), Str("types")},
            l \in LimitValues \ {Str("not-a-number")}, o \in OffsetValues, x \in ExtraValues}
    [] name = "get_package_info" ->
         {Args([package |-> p, extra |-> x]) :
            p \in {Undef, Str("core"), Str("ui-kit"), Str("any"), Num(1)}, x \in ExtraValues}
    [] name = "get_type_definition" ->
         {Args([name |-> n, extra |-> x]) : n \in NameValues \cup {Num(7)}, x \in ExtraValues}
    [] name = "get_source_file" ->
         {Args([path |-> p, extra |-> x]) :
            p \in {Undef, Str("packages/core/src/client.ts"), Str("packages/core/src/signer.ts"),
                   Str("packages/core/src/empty.ts"), Str("packages/core/src/nope.ts"),
                   Str("packages/core/src/client"), Str("src/client.ts")},
            x \in ExtraValues}
    [] name = "list_all_exports" ->
         {Args([package |-> p, type |-> t, extra |-> x]) :
            p \in {Undef, Str("core"), Str("ui-kit"), Str("both")},
            t \in {Undef, Str("functions"), Str("types"), Str("constants")},
            x \in ExtraValues}
    [] name = "find_usage_examples" ->
         {Args([api_name |-> n, limit |-> l, extra |-> x]) :
            n \in {Undef, Str("PushClient"), Str("usePushWallet"), Str("Nope")},
            l \in LimitValues, x \in ExtraValues}
    [] name = "list_push_chain_docs" ->
         {Args([category |-> c, extra |-> x]) :
            c \in {Undef, Str("tutorials"), Str("setup"), Str("build"), Str("all"), Str("misc")},
            x \in ExtraValues}
    [] name = "get_push_chain_doc" ->
         {Args([path |-> p, response_format |-> f, extra |-> x]) :
            p \in {Undef, Str("docs/chain/01-tutorials/intro.mdx"), Str("docs/chain/02-setup/wallet.mdx"),
                   Str("docs/chain/nope.mdx"), Str("docs/chain/02-setup/wallet")},
            f \in {Undef, Str("json"), Str("xml")}, x \in ExtraValues}
    [] name = "search_push_chain_docs" ->
         {Args([query |-> q, limit |-> l, response_format |-> f, extra |-> x]) :
            q \in {Undef, Str("w"), Str("wallet"), Str("setup"), Str("<zz>"), Str("chain/0")},
            l \in LimitValues, f \in {Undef, Str("json")}, x \in ExtraValues}
    [] name = "get_code_snippets" ->
         {Args([path |-> p, language |-> g, limit |-> l, extra |-> x]) :
            p \in {Undef, Str("docs/chain/02-setup/wallet.mdx"), Str("wallet.mdx")},
            g \in {Undef, Str("bash"), Str("c++")},
            l \in LimitValues, x \in ExtraValues}
    [] OTHER ->
         {Args([extra |-> x]) : x \in ExtraValues}

ToolNames == DocsTools \cup SdkTools \cup {"not_a_real_tool"}

\* a standalone server is called with its own tools, with a tool only the
\* other servers have, and with a name no server has
DocsCallNames == DocsTools \cup {"get_sdk_api", "not_a_real_tool"}

SdkCallNames == SdkTools \cup {"list_push_chain_docs", "not_a_real_tool"}

ResourceUris ==
  {"pushchain://docs/docs/chain/01-tutorials/intro.mdx",
   "pushchain://docs/docs/chain/02-setup/notes.mdx",
   "pushchain://docs/docs/chain/nope.mdx",
   "pushchain://sdk/core/packages/core/src/client.ts",
   "pushchain://sdk/ui-kit/packages/ui-kit/src/core/wallet.ts",
   "pushchain://sdk/core/packages/core/src/empty.ts",
   "pushchain://core/packages/core/src/client.ts",
   "pushchain://core/packages/core/src/signer.ts",
   "https://example.com/x"}

(***************************************************************************)
(* Tool catalog.                                                           *)
(***************************************************************************)
\* zodToMcpSchema: the JSON schema of the zod schema, filed under its name,
\* with type "object" at the root
zodToMcpSchema(zodSchema, name) ==
  [type |-> "object", name |-> name, properties |-> zodSchema]

Tool(name, description, inputSchema) ==
  [name |-> name, description |-> description, inputSchema |-> inputSchema]

\* a catalog from which the last tool was left out
CatalogWithoutLast ==
  <<Tool("list_push_chain_docs",
         "List all available Push Chain documentation files with optional category filtering.",
         zodToMcpSchema(ListDocsInputSchema, "ListDocsInput")),
    Tool("get_push_chain_doc",
         "Get full content of a specific Push Chain documentation file.",
         zodToMcpSchema(GetDocInputSchema, "GetDocInput")),
    Tool("search_push_chain_docs",
         "Search Push Chain documentation for specific topics or keywords.",
         zodToMcpSchema(SearchDocsInputSchema, "SearchDocsInput")),
    Tool("get_code_snippets",
         "Extract code snippets from Push Chain documentation.",
         zodToMcpSchema(GetCodeSnippetsInputSchema, "GetCodeSnippetsInput")),
    Tool("get_sdk_api",
         "Get detailed information about any exported API from @pushchain/core or @pushchain/ui-kit.",
         zodToMcpSchema(GetSdkApiInputSchema, "GetSdkApiInput")),
    Tool("search_sdk",
         "Search across all SDK code, types, and exports.",
         zodToMcpSchema(SearchSdkInputSchema, "SearchSdkInput")),
    Tool("get_package_info",
         "Get complete information about @pushchain/core or @pushchain/ui-kit.",
         zodToMcpSchema(GetPackageInfoInputSchema, "GetPackageInfoInput")),
    Tool("get_type_definition",
         "Get TypeScript type definition with full source code.",
         zodToMcpSchema(GetTypeDefinitionInputSchema, "GetTypeDefinitionInput")),
    Tool("get_source_file",
         "Get complete source code of any file from @pushchain/core or @pushchain/ui-kit.",
         zodToMcpSchema(GetSourceFileInputSchema, "GetSourceFileInput")),
    Tool("list_all_exports",
         "List all exported APIs organized by type.",
         zodToMcpSchema(ListAllExportsInputSchema, "ListAllExportsInput")),
    Tool("find_usage_examples",
         "Find real usage examples of an API across the codebase.",
         zodToMcpSchema(FindUsageExamplesInputSchema, "FindUsageExamplesInput")),
    Tool("get_core_classes",
         "Get all main classes from @pushchain/core with methods and purposes.",
         zodToMcpSchema(GetCoreClassesInputSchema, "GetCoreClassesInput"))>>

\* ListToolsRequestSchema handler of the unified server: the tools array,
\* documentation tools first (the description is kept by its first line)
UnifiedListTools ==
  <<Tool("list_push_chain_docs",
         "List all available Push Chain documentation files with optional category filtering.",
         zodToMcpSchema(ListDocsInputSchema, "ListDocsInput")),
    Tool("get_push_chain_doc",
         "Get full content of a specific Push Chain documentation file.",
         zodToMcpSchema(GetDocInputSchema, "GetDocInput")),
    Tool("search_push_chain_docs",
         "Search Push Chain documentation for specific topics or keywords.",
         zodToMcpSchema(SearchDocsInputSchema, "SearchDocsInput")),
    Tool("get_code_snippets",
         "Extract code snippets from Push Chain documentation.",
         zodToMcpSchema(GetCodeSnippetsInputSchema, "GetCodeSnippetsInput")),
    Tool("get_sdk_api",
         "Get detailed information about any exported API from @pushchain/core or @pushchain/ui-kit.",
         zodToMcpSchema(GetSdkApiInputSchema, "GetSdkApiInput")),
    Tool("search_sdk",
         "Search across all SDK code, types, and exports.",
         zodToMcpSchema(SearchSdkInputSchema, "SearchSdkInput")),
    Tool("get_package_info",
         "Get complete information about @pushchain/core or @pushchain/ui-kit.",
         zodToMcpSchema(GetPackageInfoInputSchema, "GetPackageInfoInput")),
    Tool("get_type_definition",
         "Get TypeScript type definition with full source code.",
         zodToMcpSchema(GetTypeDefinitionInputSchema, "GetTypeDefinitionInput")),
    Tool("get_source_file",
         "Get complete source code of any file from @pushchain/core or @pushchain/ui-kit.",
         zodToMcpSchema(GetSourceFileInputSchema, "GetSourceFileInput")),
    Tool("list_all_exports",
         "List all exported APIs organized by type.",
         zodToMcpSchema(ListAllExportsInputSchema, "ListAllExportsInput")),
    Tool("find_usage_examples",
         "Find real usage examples of an API across the codebase.",
         zodToMcpSchema(FindUsageExamplesInputSchema, "FindUsageExamplesInput")),
    Tool("get_core_classes",
         "Get all main classes from @pushchain/core with methods and purposes.",
         zodToMcpSchema(GetCoreClassesInputSchema, "GetCoreClassesInput")),
    Tool("get_ui_components",
         "Get all React components and hooks from @pushchain/ui-kit.",
         zodToMcpSchema(GetUIComponentsInputSchema, "GetUIComponentsInput"))>>

\* the result of tools/list
ToolsResult(tools) ==
  [kind |-> "tools", isError |-> FALSE, code |-> "",
   text |-> <<[k |-> "tools", n |-> Len(tools), of |-> tools]>>]

(***************************************************************************)
(* Resource listing.                                                       *)
(***************************************************************************)
\* path.split('/').pop()
RECURSIVE pop(_)
pop(path) == IF ~Includes(path, "/") THEN path ELSE pop(SubSeq(path, 2, Len(path)))

\* ListResourcesRequestSchema handler of the unified server: one resource
\* per cached document, then one per key of coreAndUIKitFiles
UnifiedListResources ==
  [i \in 1..Len(getDocFiles) |->
     [uri |-> "pushchain://docs/" \o getDocFiles[i].path,
      name |-> getDocFiles[i].name,
      description |-> "Push Chain documentation: " \o getDocFiles[i].path,
      mimeType |-> "text/markdown"]]
  \o
  [i \in 1..Len(coreAndUIKitFiles) |->
     [uri |-> "pushchain://sdk/"
                \o (IF Includes(coreAndUIKitFiles[i].path, "/core/") THEN "core" ELSE "ui-kit")
                \o "/" \o coreAndUIKitFiles[i].path,
      name |-> pop(coreAndUIKitFiles[i].path),
      description |-> "SDK source: " \o coreAndUIKitFiles[i].path,
      mimeType |-> "text/typescript"]]

\* the result of resources/list
ResourcesResult(resources) ==
  [kind |-> "resources", isError |-> FALSE, code |-> "",
   text |-> <<[k |-> "resources", n |-> Len(resources), of |-> resources]>>]

\* the URIs a client of the unified server reads: the ones it was listed
\* and some it made up
UnifiedResourceUris ==
  ResourceUris \cup {UnifiedListResources[i].uri : i \in 1..Len(UnifiedListResources)}

(***************************************************************************)
(* Actions: one request answered by one handler.                           *)
(***************************************************************************)
Idle == request.method = "none"

\* the instants the clock shows: the start, and the last instant within
\* and the first instant past each cache lifetime counted from the start
ClockValues == {1} \cup {k * CACHE_TTL + d : k \in 1..MaxTicks, d \in {0, 1}}

\* a handler that empties the documentation cache as it answers
RespondStoring(req, out) ==
  /\ request' = req
  /\ response' = out.resp
  /\ ran' = out.ran
  /\ probe' = Probed(req, out.resp)
  /\ docsCache' = <<>>
  /\ UNCHANGED <<cacheTimestamp, coreAndUIKitFiles, coreAndUIKitExports,
                 coreAndUIKitPackages, environment>>

\* the handler's outcome becomes the response to the request; no handler of
\* the unified or the standalone SDK server writes to the Data Store
Respond(req, out) ==
  /\ request' = req
  /\ response' = out.resp
  /\ ran' = out.ran
  /\ probe' = Probed(req, out.resp)
  /\ UNCHANGED <<store, environment>>

\* the standalone docs server: getDocFiles caches the listing it fetched
RespondCaching(req, out) ==
  /\ request' = req
  /\ response' = out.resp
  /\ ran' = out.ran
  /\ probe' = Probed(req, out.resp)
  /\ docsCache' = IF out.fetched THEN github ELSE docsCache
  /\ cacheTimestamp' = IF out.fetched THEN now ELSE cacheTimestamp
  /\ UNCHANGED <<coreAndUIKitFiles, coreAndUIKitExports, coreAndUIKitPackages, environment>>

CallToolUnified ==
  /\ Ready /\ Idle /\ server = "unified"
  /\ \E name \in ToolNames : \E args \in ToolArgs(name) :
       Respond([server |-> "unified", method |-> "tools/call", name |-> name,
                args |-> args, uri |-> ""],
               UnifiedCallTool(name, args))

CallToolSdk ==
  /\ Ready /\ Idle /\ server = "sdk"
  /\ \E name \in SdkCallNames : \E args \in ToolArgs(name) :
       Respond([server |-> "sdk", method |-> "tools/call", name |-> name,
                args |-> args, uri |-> ""],
               SdkCallTool(name, args))

CallToolDocs ==
  /\ Ready /\ Idle /\ server = "docs"
  /\ \E name \in DocsCallNames : \E args \in ToolArgs(name) :
       RespondCaching([server |-> "docs", method |-> "tools/call", name |-> name,
                       args |-> args, uri |-> ""],
                      DocsCallTool(name, args))

\* tools/list of the unified server
ListToolsUnified ==
  /\ Ready /\ Idle /\ server = "unified"
  /\ Respond([server |-> "unified", method |-> "tools/list", name |-> "",
              args |-> Args(<<>>), uri |-> ""],
             [resp |-> ToolsResult(UnifiedListTools), ran |-> {}])

\* resources/list of the unified server
ListResourcesUnified ==
  /\ Ready /\ Idle /\ server = "unified"
  /\ Respond([server |-> "unified", method |-> "resources/list", name |-> "",
              args |-> Args(<<>>), uri |-> ""],
             [resp |-> ResourcesResult(UnifiedListResources), ran |-> {}])

ReadResourceUnified ==
  /\ Ready /\ Idle /\ server = "unified"
  /\ \E uri \in UnifiedResourceUris :
       Respond([server |-> "unified", method |-> "resources/read", name |-> "",
                args |-> Args(<<>>), uri |-> uri],
               [resp |-> UnifiedReadResource(uri), ran |-> {"lookup"}])

ReadResourceSdk ==
  /\ Ready /\ Idle /\ server = "sdk"
  /\ \E uri \in ResourceUris :
       Respond([server |-> "sdk", method |-> "resources/read", name |-> "",
                args |-> Args(<<>>), uri |-> uri],
               [resp |-> SdkReadResource(uri), ran |-> {"lookup"}])

ReadResourceDocs ==
  /\ Ready /\ Idle /\ server = "docs"
  /\ \E uri \in ResourceUris :
       RespondCaching([server |-> "docs", method |-> "resources/read", name |-> "",
                       args |-> Args(<<>>), uri |-> uri],
                      DocsReadResource(uri))

\* the response is written to the transport; the server waits for the next
\* request with its Data Store as it is
AwaitNextRequest ==
  /\ ~Idle
  /\ request' = NoRequest
  /\ response' = NoResponse
  /\ ran' = {}
  /\ UNCHANGED <<store, environment, probe>>

\* time passes between two requests to the standalone docs server
Tick ==
  /\ Idle /\ server = "docs"
  /\ \E t \in ClockValues : t > now /\ now' = t
  /\ UNCHANGED <<store, server, github, network, request, response, ran, probe, pending, process, updating>>

\* GitHub becomes unreachable (rate limited, or no connection), or
\* reachable again
NetworkChange ==
  /\ Idle /\ server = "docs"
  /\ \E n \in NetworkStates \ {network} : network' = n
  /\ UNCHANGED <<store, server, now, github, request, response, ran, probe, pending, process, updating>>

Next ==
  \/ CallToolUnified
  \/ CallToolSdk
  \/ CallToolDocs
  \/ ListToolsUnified
  \/ ListResourcesUnified
  \/ ReadResourceUnified
  \/ ReadResourceSdk
  \/ ReadResourceDocs
  \/ AwaitNextRequest
  \/ Tick
  \/ NetworkChange

Spec == Init /\ [][Next]_vars

(***************************************************************************)
(* Properties.                                                             *)
(***************************************************************************)
\* ListToolsRequestSchema: the tools each server declares
Registry(srv) ==
  CASE srv = "unified" -> DocsTools \cup SdkTools
    [] srv = "sdk" -> SdkTools
    [] OTHER -> DocsTools

ToolCall == request.method = "tools/call"

DeclaredToolCall == ToolCall /\ request.name \in Registry(server)

\* the text opens with these characters
TextStartsWith(text, prefix) ==
  Len(text) > 0 /\ text[1].k = "str" /\ StartsWith(text[1].of, prefix)

\* a validation failure: McpError(InvalidParams) from the unified server,
\* an isError envelope from a standalone server
ValidationFailure ==
  /\ TextStartsWith(response.text, "Error: Invalid input parameters")
  /\ IF server = "unified"
     THEN response.kind = "error" /\ response.code = "InvalidParams"
     ELSE response.kind = "result" /\ response.isError

SuccessfulPayload == response.kind = "result" /\ ~response.isError

\* the fields of the request's arguments that the tool's schema does not declare
UndeclaredFields ==
  {f \in ArgFields \ DOMAIN ToolSchema(request.name) : request.args[f] # Undef}

\* the declared fields of the request's arguments all pass their checks
DeclaredFieldsValid ==
  \A f \in DOMAIN ToolSchema(request.name) :
    FieldIssueCodes(ToolSchema(request.name)[f], request.args[f]) = {}

\* C1: a call of a declared tool whose argument object holds a field the
\* tool's schema does not declare ends in a validation failure; the lookup
\* is not executed and no successful payload is returned, whatever the
\* other fields are.
C1_ExtraFieldRejected ==
  (DeclaredToolCall /\ UndeclaredFields # {})
    => (ValidationFailure /\ "lookup" \notin ran /\ ~SuccessfulPayload)

\* an undeclared field next to valid declared fields was rejected
C1_Witness ==
  /\ DeclaredToolCall /\ server = "sdk"
  /\ request.name = "get_sdk_api"
  /\ request.args["name"] = Str("PushClient")
  /\ UndeclaredFields = {"extra"}
  /\ DeclaredFieldsValid
  /\ ValidationFailure
  /\ ran = {"validator"}

\* a search_sdk call answered with its summary; the summary is the value
\* the response text serialises
SearchAnswered ==
  /\ ToolCall /\ server \in {"unified", "sdk"}
  /\ request.name = "search_sdk"
  /\ SuccessfulPayload

SearchSummaryOf == response.text[1].of

\* the items the answer carries, over its three lists
ItemsReturned ==
  Len(SearchSummaryOf.results.exports) + Len(SearchSummaryOf.results.files)
  + Len(SearchSummaryOf.results.codeMatches)

\* C2: item-count bounding as search_sdk uses it: for N results, a limit L
\* and an offset, the items returned number min(L, N - offset), `showing`
\* is the number of items returned, and has_more holds exactly when
\* offset + L < N.
C2_ItemCountBounding ==
  SearchAnswered =>
    LET p == SearchSummaryOf.pagination IN
    /\ ItemsReturned = Min(p.limit, p.total - p.offset)
    /\ p.showing = ItemsReturned
    /\ (p.has_more <=> p.offset + p.limit < p.total)

\* the exports a query matches, in the order the search finds them
MatchedExports == searchInCode(request.args["query"].s, "exports").exports

\* the search ran over the exports alone
ExportsOnly == request.args["scope"] = Str("types")

\* C3: paging a keyword search that matches N exports, N > limit: offset 0
\* returns the first `limit` items with has_more and next_offset = limit;
\* the follow-up call with offset = next_offset returns the items after the
\* first `limit`, with has_more false once offset + limit >= N.
C3_PagingReturnsRemaining ==
  (SearchAnswered /\ ExportsOnly /\ Len(MatchedExports) > SearchSummaryOf.pagination.limit) =>
    LET p == SearchSummaryOf.pagination
        N == Len(MatchedExports)
    IN /\ p.offset = 0 =>
            /\ SearchSummaryOf.results.exports = SubSeq(MatchedExports, 1, p.limit)
            /\ p.has_more /\ p.hasNext /\ p.next_offset = p.limit
       /\ p.offset = p.limit =>
            /\ SearchSummaryOf.results.exports
                 = SubSeq(MatchedExports, p.limit + 1, Min(2 * p.limit, N))
            /\ (p.offset + p.limit >= N => ~p.has_more)

\* C4: with offset >= total the slice is empty and reported as 0 items
\* shown of total (never a negative count), has_more is false, there is no
\* next_offset, and the call is not an error.
C4_OffsetPastTotal ==
  (ToolCall /\ server \in {"unified", "sdk"} /\ request.name = "search_sdk"
   /\ "lookup" \in ran
   /\ request.args["offset"] # Undef
   /\ request.args["offset"].i >= response.text[1].of.pagination.total) =>
    /\ SuccessfulPayload
    /\ ItemsReturned = 0
    /\ SearchSummaryOf.pagination.showing = 0
    /\ ~SearchSummaryOf.pagination.has_more
    /\ ~SearchSummaryOf.pagination.hasNext

(***************************************************************************)
(* The formatter on its own: enforceCharacterLimit applied to texts whose  *)
(* lengths lie around the ceiling and around the next power of ten.        *)
(***************************************************************************)
\* a text of a heading and n further characters, and a text of n characters
\* and a closing line
SampleLengths ==
  {0} \cup {CHARACTER_LIMIT + d : d \in (0 - MaxSpread)..MaxSpread}
      \cup {10 ^ Digits(CHARACTER_LIMIT) + d : d \in (0 - MaxSpread)..MaxSpread}

SampleTexts ==
  {S(h) \o <<[k |-> "fill", n |-> n, of |-> "body"]>> : h \in {"", "# Title\n"}, n \in SampleLengths}
  \cup {<<[k |-> "fill", n |-> n, of |-> "body"]>> \o S("\n~~~ end of file") : n \in SampleLengths}

FormatterInit ==
  /\ server = "formatter"
  /\ docsCache = <<>>
  /\ cacheTimestamp = 0
  /\ coreAndUIKitFiles = <<>>
  /\ coreAndUIKitExports = [kind \in DOMAIN exportsDataOf(0) |-> <<>>]
  /\ coreAndUIKitPackages = <<>>
  /\ now = 1
  /\ github = <<>>
  /\ network = "ok"
  /\ process = Running(TRUE)
  /\ request = NoRequest
  /\ response = NoResponse
  /\ ran = {}
  /\ probe = NoProbe
  /\ UpdaterOff
  /\ pending = NoPending

\* const limited = enforceCharacterLimit(response), limited.text is returned
EnforceLimit ==
  /\ Idle
  /\ \E text \in SampleTexts :
       /\ request' = [NoRequest EXCEPT !.server = "formatter",
                                       !.method = "enforceCharacterLimit",
                                       !.args = text]
       /\ response' = createSuccessResponse(enforceCharacterLimit(text, CHARACTER_LIMIT).text)
  /\ ran' = {}
  /\ UNCHANGED <<store, environment, probe>>

FormatterNext == EnforceLimit \/ AwaitNextRequest

FormatterSpec == FormatterInit /\ [][FormatterNext]_vars

\* a text longer than the ceiling went through enforceCharacterLimit
LongTextLimited ==
  /\ request.method = "enforceCharacterLimit"
  /\ TLen(request.args) > CHARACTER_LIMIT

Front(text) == SubSeq(text, 1, Len(text) - 1)

Last(text) == text[Len(text)]

\* the length of the notice of a text one character over the ceiling
ShortestNoticeLen == NoticeFixedLen + 2 * Digits(CHARACTER_LIMIT)

\* C5 as stated: a text longer than the ceiling C comes back as its first C
\* characters followed by the truncation notice, its length is exactly C
\* plus the fixed length of the notice, and the notice states the original
\* length.
C5_FixedNoticeLength ==
  LongTextLimited =>
    /\ Front(response.text) = substring0(request.args, CHARACTER_LIMIT)
    /\ Last(response.text).k = "notice"
    /\ Last(response.text).of.originalLength = TLen(request.args)
    /\ TLen(response.text) = CHARACTER_LIMIT + ShortestNoticeLen

\* C5: a text longer than the ceiling C comes back as its first C
\* characters followed by the truncation notice; the notice states the
\* original length and the shown length, so the length of the whole is
\* C + 290 + the digits of the original length + the digits of C.
C5_TruncationExact ==
  LongTextLimited =>
    /\ Front(response.text) = substring0(request.args, CHARACTER_LIMIT)
    /\ TLen(Front(response.text)) = CHARACTER_LIMIT
    /\ Last(response.text).k = "notice"
    /\ Last(response.text).of.originalLength = TLen(request.args)
    /\ Last(response.text).of.showing = CHARACTER_LIMIT
    /\ TLen(response.text)
         = CHARACTER_LIMIT + NoticeFixedLen + Digits(TLen(request.args)) + Digits(CHARACTER_LIMIT)

\* a text of 100000 characters or more was cut: its notice is one character
\* longer than the notice of a five-digit length
C5_Witness ==
  /\ LongTextLimited
  /\ TLen(request.args) >= 100000
  /\ TLen(response.text) = CHARACTER_LIMIT + ShortestNoticeLen + 1

\* the characters of a text before its truncation notice
PayloadLen(text) ==
  IF Len(text) > 0 /\ Last(text).k = "notice" THEN TLen(Front(text)) ELSE TLen(text)

\* the length the authors' test accepts (analyze-sdk.js)
TestBound == 26000

\* C6: every successful tool-call response carries a text whose payload
\* part is at most CHARACTER_LIMIT characters, the whole text never
\* exceeding the ceiling plus the truncation notice (at most 26000
\* characters), even when one returned item is larger than the ceiling.
C6_SuccessBounded ==
  (ToolCall /\ SuccessfulPayload) =>
    /\ PayloadLen(response.text) <= CHARACTER_LIMIT
    /\ TLen(response.text) <= TestBound

\* a source file longer than the ceiling was asked for and came back cut
C6_Witness ==
  /\ ToolCall /\ SuccessfulPayload
  /\ request.name = "get_source_file"
  /\ ContentLen(FileAt(request.args["path"].s).content) > CHARACTER_LIMIT
  /\ Last(response.text).k = "notice"
  /\ PayloadLen(response.text) = CHARACTER_LIMIT

ResourceRead == request.method = "resources/read" /\ response.kind = "contents"

\* C7: reading a resource returns the record's raw text without item-count
\* pagination but under the character ceiling: the text of a record longer
\* than CHARACTER_LIMIT is cut at the ceiling.
C7_ResourceTruncated ==
  ResourceRead => PayloadLen(response.text) <= CHARACTER_LIMIT

\* a call of get_sdk_api or get_type_definition whose arguments pass the
\* schema and whose name no export of the store carries
NotFoundLookup ==
  /\ ToolCall /\ server \in {"unified", "sdk"}
  /\ request.name \in {"get_sdk_api", "get_type_definition"}
  /\ UndeclaredFields = {} /\ DeclaredFieldsValid
  /\ \A i \in 1..Len(AllExports) : AllExports[i].name # request.args["name"].s

\* the response text says "not found" and names search_sdk as the way on
SignalsNotFound ==
  /\ Len(response.text) = 1 /\ response.text[1].k = "str"
  /\ Includes(response.text[1].of, "\"" \o request.args["name"].s \o "\" not found")
  /\ Includes(response.text[1].of, "'search_sdk'")

\* C8 as stated: looking up a valid name that does not exist returns a
\* successful envelope, not flagged as an error, whose payload signals
\* "not found" with hints; no validation failure, no protocol error.
C8_NotFoundSuccessful ==
  NotFoundLookup =>
    /\ SuccessfulPayload /\ SignalsNotFound
    /\ ~ValidationFailure /\ response.kind # "error"

\* C8 as the code has it: looking up a valid name that does not exist
\* returns a tool result flagged isError whose text signals "not found" and
\* hints at search_sdk; the validator and the lookup both ran, and the
\* outcome is neither a validation failure nor a protocol error.
C8_NotFoundFlagged ==
  NotFoundLookup =>
    /\ response.kind = "result" /\ response.isError /\ SignalsNotFound
    /\ ~ValidationFailure /\ response.code = ""
    /\ ran = {"validator", "lookup"}

C8_Witness ==
  /\ NotFoundLookup /\ server = "unified"
  /\ request.name = "get_type_definition"
  /\ request.args["name"] = Str("DoesNotExist123")
  /\ response.isError /\ SignalsNotFound

\* the unknown-tool failure of each server
UnknownToolFailure ==
  /\ TextStartsWith(response.text, "Unknown tool: " \o request.name)
  /\ IF server = "unified"
     THEN response.kind = "error" /\ response.code = "MethodNotFound"
     ELSE response.kind = "result" /\ response.isError

\* C9: a call whose tool name is not in the server's registry reaches
\* neither the validator nor a lookup and returns the unknown-tool failure
\* (McpError MethodNotFound in the unified server, an isError envelope
\* "Unknown tool" in the standalone servers); no call of a declared tool
\* returns that failure, so it is told apart from validation, not-found and
\* internal failures.
C9_UnknownToolDistinct ==
  ToolCall =>
    /\ (request.name \notin Registry(server)) <=> UnknownToolFailure
    /\ (request.name \notin Registry(server)) =>
         /\ ran = {}
         /\ ~ValidationFailure
         /\ response.code # "InternalError"

C9_Witness ==
  /\ ToolCall /\ server = "unified" /\ request.name = "not_a_real_tool"
  /\ response.kind = "error" /\ response.code = "MethodNotFound" /\ ran = {}

\* what the tool's description says of its arguments
DescribedArgs ==
  IF request.name \in DocsTools THEN DocsDescribedArgs(request.name)
  ELSE SdkDescribedArgs(request.name)

\* a field the description calls required is absent
OmitsRequired ==
  \E f \in DOMAIN DescribedArgs : DescribedArgs[f].required /\ request.args[f] = Undef

\* a described field is given a value of another type than described
WrongType ==
  \E f \in DOMAIN DescribedArgs :
    request.args[f] # Undef /\ request.args[f].t # DescribedArgs[f].type

\* a described field is given a value that is not of the described type
\* even after the coercion its schema declares
WrongTypeAfterCoercion ==
  \E f \in DOMAIN DescribedArgs :
    /\ request.args[f] # Undef
    /\ IF ToolSchema(request.name)[f].coerce
       THEN ToNumber(request.args[f]).s = "nan"
       ELSE request.args[f].t # DescribedArgs[f].type

\* C10 as stated: a call of a declared tool that omits a required field or
\* gives a field a value of the wrong type yields a validation failure and
\* the lookup is not executed.
C10_WrongTypeRejected ==
  (DeclaredToolCall /\ (OmitsRequired \/ WrongType)) =>
    ValidationFailure /\ "lookup" \notin ran

\* C10 as the code has it: a call of a declared tool that omits a required
\* field, or gives a field a value that is not of its type after the
\* coercion the schema declares (z.coerce.number() turns "2" into 2), yields
\* a validation failure (McpError InvalidParams in the unified server, an
\* isError envelope in the standalone servers), and only the validator ran.
C10_InvalidInputRejected ==
  (DeclaredToolCall /\ (OmitsRequired \/ WrongTypeAfterCoercion)) =>
    ValidationFailure /\ ran = {"validator"}

C10_Witness ==
  /\ DeclaredToolCall /\ server = "unified"
  /\ request.name = "get_package_info" /\ OmitsRequired
  /\ response.code = "InvalidParams" /\ ran = {"validator"}

\* a success envelope, an error envelope, or a typed protocol error
WellFormedOutcome ==
  /\ TLen(response.text) > 0
  /\ \/ response.kind = "result" /\ response.code = ""
     \/ /\ response.kind = "error" /\ ~response.isError
        /\ response.code \in {"InvalidParams", "MethodNotFound", "InternalError"}

\* the outcome of the handler's outer catch: McpError(InternalError) in the
\* unified server, an "Unexpected error" envelope in a standalone server
InternalErrorOutcome ==
  IF server = "unified"
  THEN response.kind = "error" /\ response.code = "InternalError"
  ELSE /\ response.kind = "result" /\ response.isError
       /\ TextStartsWith(response.text, "Unexpected error: ")

\* a call of the standalone docs server whose arguments pass the schema and
\* whose pipeline throws: getDocFiles has to fetch the listing and GitHub
\* cannot be reached (the failed call leaves cache and clock as they were)
PipelineThrew ==
  /\ DeclaredToolCall /\ server = "docs"
  /\ UndeclaredFields = {} /\ DeclaredFieldsValid
  /\ (cacheTimestamp = 0 \/ now - cacheTimestamp >= CACHE_TTL)
  /\ network # "ok"

ProbeKeys ==
  { [name |-> "get_sdk_api", args |-> Args([name |-> Str("PushClient")])],
    [name |-> "get_sdk_api", args |-> Args([name |-> Str("DoesNotExist123")])],
    [name |-> "get_source_file", args |-> Args([path |-> Str("packages/core/src/client.ts")])] }

RepeatInit ==
  /\ \E srv \in {"unified", "sdk"}, bulk \in BulkSizes :
       LoadSdkData(srv, MaxExports, bulk, TRUE)
  /\ request = NoRequest
  /\ response = NoResponse
  /\ ran = {}
  /\ \E key \in ProbeKeys : probe = [NoProbe EXCEPT !.name = key.name, !.args = key.args]
  /\ UpdaterOff
  /\ pending = NoPending

RepeatNext ==
  \/ CallToolUnified
  \/ CallToolSdk
  \/ ReadResourceUnified
  \/ ReadResourceSdk
  \/ AwaitNextRequest

RepeatSpec == RepeatInit /\ [][RepeatNext]_vars

\* the watched lookup has just been answered
WatchedAnswered ==
  ToolCall /\ request.name = probe.name /\ request.args = probe.args

ApiLookup ==
  /\ ToolCall /\ server \in {"unified", "sdk"} /\ request.name = "get_sdk_api"
  /\ UndeclaredFields = {} /\ DeclaredFieldsValid

\* the export records of the Data Store, in its order, whose name is the
\* name asked for and whose file lies in the package asked for
NamedExports ==
  SelectSeq(AllExports,
            LAMBDA e : /\ e.name = request.args["name"].s
                       /\ \/ request.args["package"] \in {Undef, Str("any")}
                          \/ Includes(e.file, "packages/" \o request.args["package"].s \o "/"))

\* the records of a get_sdk_api payload
ApiRecords == response.text[1].of

\* C13: get_sdk_api returns one record for every export record whose name
\* equals the name asked for and that passes the package filter, exports of
\* the same name in different files or of different kinds included; it
\* returns no other record, and the records keep the order of the Data
\* Store.  When there is no such export the call is answered "not found".
C13_ExactNameLookup ==
  ApiLookup =>
    IF Len(NamedExports) = 0
    THEN response.isError
    ELSE /\ SuccessfulPayload
         /\ response.text[1].k = "json"
         /\ Len(ApiRecords) = Len(NamedExports)
         /\ \A i \in 1..Len(NamedExports) :
              /\ ApiRecords[i].name = request.args["name"].s
              /\ ApiRecords[i].file = NamedExports[i].file
              /\ ApiRecords[i].type = NamedExports[i].exportType

\* two exports of one name, of different kinds and in different packages,
\* are both returned
C13_Witness ==
  /\ ApiLookup /\ SuccessfulPayload
  /\ request.args["name"] = Str("PushClient")
  /\ Len(ApiRecords) = 2
  /\ ApiRecords[1].file # ApiRecords[2].file
  /\ ApiRecords[1].type # ApiRecords[2].type

\* the package under whose root a file lives
RootPackage(file) ==
  IF StartsWith(file, "packages/core/") THEN "@pushchain/core"
  ELSE IF StartsWith(file, "packages/ui-kit/") THEN "@pushchain/ui-kit"
  ELSE ""

\* a lookup of the unified or the SDK server answered with records
RecordsReturned(tool) ==
  /\ ToolCall /\ server \in {"unified", "sdk"} /\ request.name = tool
  /\ SuccessfulPayload /\ response.text[1].k = "json"

\* C14: every record returned by get_sdk_api, get_type_definition or
\* list_all_exports reports the package under whose root its source file
\* lives: "@pushchain/core" exactly for a file under packages/core/,
\* "@pushchain/ui-kit" exactly for a file under packages/ui-kit/.
C14_PackageOfRoot ==
  /\ \A tool \in {"get_sdk_api", "get_type_definition"} :
       RecordsReturned(tool) =>
         \A i \in 1..Len(response.text[1].of) :
           response.text[1].of[i].package = RootPackage(response.text[1].of[i].file)
  /\ RecordsReturned("list_all_exports") =>
       \A kind \in DOMAIN response.text[1].of :
         \A i \in 1..Len(response.text[1].of[kind]) :
           response.text[1].of[kind][i].package = RootPackage(response.text[1].of[kind][i].file)

\* list_push_chain_docs was answered for one category
CategoryListed ==
  /\ ToolCall /\ request.name = "list_push_chain_docs"
  /\ SuccessfulPayload /\ response.text[1].k = "json"
  /\ request.args["category"] \notin {Undef, Str("all")}

\* the documents the server holds whose path lies under the directory of the
\* category asked for
UnderCategory ==
  SelectSeq(IF server = "docs" THEN docsCache ELSE getDocFiles,
            LAMBDA d : StartsWith(d.path, "docs/chain" \o CategoryMarker(request.args["category"].s)))

\* where the entry of the k-th document ends its name and path lines in the
\* serialised listing: the opening lines, the entries before it, its own
\* first two keys
EntryShownBy(docs, k) ==
  60 + SumSeq([i \in 1..(k - 1) |-> DocJsonLen(Listed(server, docs[i]))])
  + 40 + JsonStrLen(docs[k].name) + JsonStrLen(docs[k].path)

\* C15: list_push_chain_docs with a category other than "all" returns
\* exactly the documents whose path lies under the category's directory:
\* the reported total is their number, each of them is listed under that
\* category in the returned text, and no entry is listed under another
\* category.
C15_CategoryFilter ==
  CategoryListed =>
    LET listing == response.text[1].of
        c == request.args["category"].s
    IN /\ listing.total = Len(UnderCategory)
       /\ [i \in 1..Len(listing.categories[c]) |-> listing.categories[c][i].path]
            = [i \in 1..Len(UnderCategory) |-> UnderCategory[i].path]
       /\ \A other \in DOMAIN listing.categories \ {c} : listing.categories[other] = <<>>
       /\ \A k \in 1..Len(UnderCategory) :
            EntryShownBy(UnderCategory, k) <= response.text[1].n

(***************************************************************************)
(* SDK updater.                                                            *)
(***************************************************************************)
\* UPDATE_INTERVALS.conservative, the default
UPDATE_INTERVAL == 86400000

SDK_PACKAGES == {"packages/core", "packages/ui-kit"}

\* commits the repository gets, calls of checkAndUpdate, days the clock runs
MaxCommits == 2
MaxRuns == 2
MaxDays == 2

\* the files a commit changes
ChangeSets ==
  { {"README.md"},
    {"packages/core/src/client.ts", "README.md"},
    {"packages/core-utils/index.ts"} }

\* the branch head (data.sha of /commits/main)
BranchHead == repo[Len(repo)].sha

\* data.files of /compare/<sinceSha>...main
ChangedSince(sinceSha) ==
  UNION {repo[i].files : i \in {j \in 1..Len(repo) : repo[j].sha > sinceSha}}

\* no gate: every call goes on to the request
NeverCheckedRecently(forceUpdate) == forceUpdate /\ ~forceUpdate

\* the interval gate: a non-forced call returns when the last check is recent
CheckedRecently(forceUpdate) ==
  /\ ~forceUpdate
  /\ metadata.lastCheck # 0
  /\ now - metadata.lastCheck < UPDATE_INTERVAL

\* the metadata once the latest commit is known and the check recorded, as
\* every later return saves it
RecordedMetadata ==
  [metadata EXCEPT !.lastCheck = updater.startedAt, !.lastCommitSha = BranchHead]

CheckedMetadata == [metadata EXCEPT !.lastCheck = updater.startedAt]

\* checkAndUpdate up to its first await: the metadata is loaded and the
\* gate is passed, or the call returns
checkAndUpdate(forceUpdate) ==
  /\ updater.phase = "idle" /\ updater.runs < MaxRuns
  /\ updater' =
       [phase |-> IF CheckedRecently(forceUpdate) THEN "idle" ELSE "fetching",
        forceUpdate |-> forceUpdate, startedAt |-> now, latestCommit |-> 0,
        requests |-> 0, compared |-> [status |-> "none", files |-> {}],
        outcome |-> IF CheckedRecently(forceUpdate) THEN "checked recently" ELSE "running",
        previous |-> IF updater.outcome = "checked recently"
                     THEN updater.previous ELSE updater.outcome,
        runs |-> updater.runs + 1]
  /\ UNCHANGED <<metadata, repo, dataDir>>

\* node sdk-updater.js [--force]
UpdateCommand ==
  /\ \E forceUpdate \in BOOLEAN : checkAndUpdate(forceUpdate)
  /\ UNCHANGED <<store, server, now, github, network, process, request, response, ran, probe, pending>>

\* the call returns: the metadata it holds is saved
Returned(saved, outcome) ==
  /\ metadata' = saved
  /\ updater' = [updater EXCEPT !.phase = "idle", !.requests = @ + 1, !.outcome = outcome,
                                 !.latestCommit = BranchHead]

\* getLatestCommitSha settles.  A failed request is caught and the metadata
\* saved as loaded; else lastCheck is set, and the call ends (no new
\* commit), asks for the comparison, or starts the regeneration
LatestCommitFetched ==
  /\ updater.phase = "fetching"
  /\ \E ok \in BOOLEAN :
       IF ~ok
       THEN /\ metadata' = metadata
            /\ updater' = [updater EXCEPT !.phase = "idle", !.requests = @ + 1,
                                           !.outcome = "check failed"]
       ELSE IF ~updater.forceUpdate /\ BranchHead = metadata.lastCommitSha
       THEN Returned(CheckedMetadata, "up to date")
       ELSE /\ metadata' = metadata
            /\ updater' =
                 [updater EXCEPT
                    !.phase = IF ~updater.forceUpdate /\ metadata.lastCommitSha # 0
                              THEN "comparing" ELSE "regenerating",
                    !.requests = @ + 1, !.latestCommit = BranchHead]
  /\ UNCHANGED <<repo, dataDir>>
  /\ UNCHANGED <<store, server, now, github, network, process, request, response, ran, probe, pending>>

\* every comparison counts as a modification
anyFileModified(files) == files = files

\* any file of the comparison lies under an SDK package
sdkModified(files) == \E f \in files : \E pkg \in SDK_PACKAGES : StartsWith(f, pkg)

\* the comparison as checkSDKPackagesModified gets it: the files changed
\* since the recorded commit, 404 when that commit is gone, or an error
Comparison(api) ==
  IF api = "error" THEN [status |-> "error", files |-> {}]
  ELSE IF \A i \in 1..Len(repo) : repo[i].sha # metadata.lastCommitSha
  THEN [status |-> "404", files |-> {}]
  ELSE [status |-> "ok", files |-> ChangedSince(metadata.lastCommitSha)]

\* checkSDKPackagesModified settles: unmodified packages end the call with
\* the new SHA recorded; a 404 and an error count as modified
PackagesCompared ==
  /\ updater.phase = "comparing"
  /\ \E api \in {"ok", "error"} :
       IF Comparison(api).status = "ok" /\ ~sdkModified(Comparison(api).files)
       THEN /\ metadata' = [CheckedMetadata EXCEPT !.lastCommitSha = updater.latestCommit]
            /\ updater' = [updater EXCEPT !.phase = "idle", !.requests = @ + 1,
                                           !.compared = Comparison(api),
                                           !.outcome = "unchanged"]
       ELSE /\ metadata' = metadata
            /\ updater' = [updater EXCEPT !.phase = "regenerating", !.requests = @ + 1,
                                           !.compared = Comparison(api)]
  /\ UNCHANGED <<repo, dataDir>>
  /\ UNCHANGED <<store, server, now, github, network, process, request, response, ran, probe, pending>>

\* updateSDKData returns: the clone of the branch head was analysed and the
\* data files written, or a command failed, the analysis possibly half way
\* through its writes
SdkDataUpdated ==
  /\ updater.phase = "regenerating"
  /\ \E success \in BOOLEAN, written \in BOOLEAN :
       IF success
       THEN /\ written
            /\ dataDir' = [sha |-> BranchHead, writes |-> dataDir.writes + 1, whole |-> TRUE]
            /\ metadata' = [CheckedMetadata EXCEPT !.lastUpdate = updater.startedAt,
                                                   !.lastCommitSha = updater.latestCommit]
            /\ updater' = [updater EXCEPT !.phase = "idle", !.outcome = "updated"]
       ELSE /\ dataDir' = IF written
                          THEN [sha |-> BranchHead, writes |-> dataDir.writes + 1, whole |-> FALSE]
                          ELSE dataDir
            /\ metadata' = CheckedMetadata
            /\ updater' = [updater EXCEPT !.phase = "idle",
                                           !.outcome = IF updater.forceUpdate
                                                       THEN "forced update failed"
                                                       ELSE "update failed"]
  /\ UNCHANGED repo
  /\ UNCHANGED <<store, server, now, github, network, process, request, response, ran, probe, pending>>

\* a commit is pushed to the branch
Push ==
  /\ BranchHead < MaxCommits
  /\ \E files \in ChangeSets : repo' = Append(repo, [sha |-> BranchHead + 1, files |-> files])
  /\ UNCHANGED <<metadata, updater, dataDir>>
  /\ UNCHANGED <<store, server, now, github, network, process, request, response, ran, probe, pending>>

\* the branch is rewritten: the earlier commits are gone
ForcePush ==
  /\ BranchHead < MaxCommits
  /\ \E files \in ChangeSets : repo' = <<[sha |-> BranchHead + 1, files |-> files]>>
  /\ UNCHANGED <<metadata, updater, dataDir>>
  /\ UNCHANGED <<store, server, now, github, network, process, request, response, ran, probe, pending>>

\* the instants the updater's clock shows: the start, and the last instant
\* within and the first instant past each interval counted from the start
UpdateClock == {1} \cup {k * UPDATE_INTERVAL + d : k \in 1..MaxDays, d \in {0, 1}}

\* the clock is read when checkAndUpdate is called and not again
TimePasses ==
  /\ updater.phase = "idle"
  /\ \E t \in UpdateClock : t > now /\ now' = t
  /\ UNCHANGED <<store, server, github, network, process, request, response, ran, probe, pending,
                 updating>>

(***************************************************************************)
(* Startup of the unified server.                                          *)
(***************************************************************************)
\* JSON.parse(readFileSync(file)) returns (it throws otherwise)
Parses(file) == process.files[file] = "ok"

\* the process is started on an installation whose data files are in any
\* condition; nothing is loaded yet
StartupInit ==
  /\ server = "unified"
  /\ docsCache = <<>>
  /\ cacheTimestamp = 0
  /\ coreAndUIKitFiles = <<>>
  /\ coreAndUIKitExports = [kind \in DOMAIN exportsDataOf(0) |-> <<>>]
  /\ coreAndUIKitPackages = <<>>
  /\ now = 1
  /\ github = <<>>
  /\ network = "ok"
  /\ \E files \in [SdkDataFiles \cup {DocsDataFile} -> ArtifactStates] :
       process = [phase |-> "loading", exitCode |-> 0, autoUpdate |-> FALSE,
                  files |-> files]
  /\ request = NoRequest
  /\ response = NoResponse
  /\ ran = {}
  /\ probe = NoProbe
  /\ UpdaterOff
  /\ pending = NoPending

\* a load that gives up when any file is not usable, the documentation
\* cache included
LoadModuleStrict ==
  /\ process.phase = "loading"
  /\ \E bulk \in BulkSizes :
       IF \A f \in SdkDataFiles \cup {DocsDataFile} : Parses(f)
       THEN /\ docsCache' = docsCacheData(bulk)
            /\ coreAndUIKitFiles' =
                 SelectSeq(fileContentsData(bulk), LAMBDA f : filterByPackage(f.path))
            /\ coreAndUIKitExports' =
                 [kind \in DOMAIN exportsDataOf(MaxExports) |->
                    SelectSeq(exportsDataOf(MaxExports)[kind],
                              LAMBDA e : filterByPackage(e.file))]
            /\ coreAndUIKitPackages' =
                 SelectSeq(packagesDataOf(TRUE),
                           LAMBDA p : p.name = "@pushchain/core" \/ p.name = "@pushchain/ui-kit")
            /\ process' = [process EXCEPT !.phase = "loaded"]
       ELSE /\ process' = [process EXCEPT !.phase = "exited", !.exitCode = 1]
            /\ UNCHANGED <<docsCache, coreAndUIKitFiles, coreAndUIKitExports,
                           coreAndUIKitPackages>>
  /\ UNCHANGED <<cacheTimestamp, server, now, github, network, request, response,
                 ran, probe, pending, updating>>

\* the module's top-level statements: the documentation cache is read in a
\* try whose catch falls back to [], the SDK artifacts in a try whose catch
\* ends the process with exit code 1
LoadModule ==
  /\ process.phase = "loading"
  /\ \E bulk \in BulkSizes :
       /\ docsCache' = IF Parses(DocsDataFile) THEN docsCacheData(bulk) ELSE <<>>
       /\ IF \A f \in SdkDataFiles : Parses(f)
          THEN /\ coreAndUIKitFiles' =
                    SelectSeq(fileContentsData(bulk), LAMBDA f : filterByPackage(f.path))
               /\ coreAndUIKitExports' =
                    [kind \in DOMAIN exportsDataOf(MaxExports) |->
                       SelectSeq(exportsDataOf(MaxExports)[kind],
                                 LAMBDA e : filterByPackage(e.file))]
               /\ coreAndUIKitPackages' =
                    SelectSeq(packagesDataOf(TRUE),
                              LAMBDA p : p.name = "@pushchain/core" \/ p.name = "@pushchain/ui-kit")
               /\ process' = [process EXCEPT !.phase = "loaded"]
          ELSE /\ process' = [process EXCEPT !.phase = "exited", !.exitCode = 1]
               /\ UNCHANGED <<coreAndUIKitFiles, coreAndUIKitExports, coreAndUIKitPackages>>
  /\ UNCHANGED <<cacheTimestamp, server, now, github, network, request, response,
                 ran, probe, pending, updating>>

\* main(): the transport is connected and the server is ready on stdio
\* unless SDK_AUTO_UPDATE is "false", checkAndUpdate(false) is called and
\* not awaited
main ==
  /\ process.phase = "loaded"
  /\ process' = [process EXCEPT !.phase = "ready"]
  /\ IF process.autoUpdate THEN checkAndUpdate(FALSE) ELSE UNCHANGED updating
  /\ UNCHANGED <<store, server, now, github, network, request, response, ran, probe, pending>>

StartupNext ==
  \/ LoadModule
  \/ main
  \/ CallToolUnified
  \/ ReadResourceUnified
  \/ AwaitNextRequest

StartupSpec == StartupInit /\ [][StartupNext]_vars

\* every required SDK data artifact is there and parses
SdkArtifactsUsable == \A f \in SdkDataFiles : process.files[f] = "ok"

\* C16: a missing or unparsable required SDK data artifact ends the process
\* with a non-zero exit code before it is ready, and nothing is ever
\* answered; when only the documentation cache is missing or unparsable the
\* process does not exit, becomes ready and serves an empty document set.
C16_StartupPolicy ==
  /\ ~SdkArtifactsUsable =>
       /\ process.phase \in {"loading", "exited"}
       /\ process.phase = "loading" => ENABLED LoadModule
       /\ process.phase = "exited" => process.exitCode # 0
       /\ request = NoRequest /\ response = NoResponse
       /\ ~ENABLED (CallToolUnified \/ ReadResourceUnified \/ main)
  /\ (SdkArtifactsUsable /\ process.files[DocsDataFile] # "ok") =>
       /\ process.phase # "exited" /\ process.exitCode = 0
       /\ process.phase = "loading" => ENABLED LoadModule
       /\ process.phase = "loaded" => ENABLED main
       /\ process.phase = "ready" =>
            /\ docsCache = <<>>
            /\ Idle => ENABLED CallToolUnified
            /\ (ToolCall /\ request.name = "list_push_chain_docs" /\ SuccessfulPayload
                  /\ response.text[1].k = "json")
                 => /\ response.text[1].of.total = 0
                    /\ \A c \in DOMAIN response.text[1].of.categories :
                         response.text[1].of.categories[c] = <<>>

\* without its documentation cache the server is ready and answered a listing
C16_Witness ==
  /\ SdkArtifactsUsable /\ process.files[DocsDataFile] = "unparsable"
  /\ process.phase = "ready"
  /\ ToolCall /\ request.name = "list_push_chain_docs" /\ SuccessfulPayload
  /\ response.text[1].k = "json" /\ response.text[1].of.total = 0

\* tools/list was answered by the unified server
ToolsListed == request.method = "tools/list" /\ response.kind = "tools"

\* the names of a catalog
CatalogNames(tools) == {tools[i].name : i \in 1..Len(tools)}

C17_UnknownRefused ==
  /\ ToolCall /\ server = "unified" /\ request.name = "not_a_real_tool"
  /\ response.code = "MethodNotFound"

\* the text of the record the i-th listed resource stands for: documents
\* are listed first, source files after them
ListedRecordText(i) ==
  IF i <= Len(getDocFiles)
  THEN ContentText(getDocFiles[i].path, getDocFiles[i].content)
  ELSE ContentText(coreAndUIKitFiles[i - Len(getDocFiles)].path,
                   coreAndUIKitFiles[i - Len(getDocFiles)].content)

\* the unified server answered resources/read for the i-th URI it lists
ReadOfListed(i) ==
  /\ request.method = "resources/read" /\ server = "unified"
  /\ request.uri = UnifiedListResources[i].uri

\* C18: every URI resources/list returns is accepted by resources/read, and
\* reading it yields the text of exactly the record the URI was listed for.
C18_ResourceRoundTrip ==
  \A i \in 1..Len(UnifiedListResources) :
    ReadOfListed(i) =>
      /\ response.kind = "contents"
      /\ response.text = ListedRecordText(i)

\* the round trip for the listed records that hold some text
RoundTripOfNonEmpty ==
  \A i \in 1..Len(UnifiedListResources) :
    (ReadOfListed(i) /\ PayloadLen(ListedRecordText(i)) > 0) =>
      /\ response.kind = "contents"
      /\ response.text = ListedRecordText(i)

\* get_source_file passed validation and looked its path up
SourceFileLookup ==
  /\ ToolCall /\ server \in {"unified", "sdk"}
  /\ request.name = "get_source_file"
  /\ "lookup" \in ran

\* the path asked for is a key of the Data Store
IsStoredPath ==
  \E i \in 1..Len(coreAndUIKitFiles) : coreAndUIKitFiles[i].path = request.args["path"].s

\* C19: get_source_file returns the stored record for every path that is a
\* key of the Data Store, whatever the text of the file, and a not-found
\* response for every path that is not a key; a path that is only a part of
\* a key never returns a record.
C19_ExactPathLookup ==
  SourceFileLookup =>
    IF IsStoredPath
    THEN /\ SuccessfulPayload
         /\ TextStartsWith(response.text, "# " \o request.args["path"].s \o "\n")
    ELSE /\ response.kind = "result" /\ response.isError
         /\ TextStartsWith(response.text, "File \"" \o request.args["path"].s \o "\" not found")

\* the lookup for the stored files that hold some text
ExactPathLookupOfNonEmpty ==
  (SourceFileLookup /\ request.args["path"].s # "packages/core/src/empty.ts")
    => C19_ExactPathLookup

\* search_push_chain_docs was answered
DocsSearched ==
  /\ ToolCall /\ request.name = "search_push_chain_docs"
  /\ SuccessfulPayload /\ "lookup" \in ran

\* the result items of the answer, in the order the text lists them
SearchItems ==
  IF response.text[1].k = "json" THEN response.text[1].of.results
  ELSE IF Len(response.text) >= 2 /\ response.text[2].k = "markdown"
       THEN response.text[2].of
       ELSE <<>>

\* the place of a document in the Data Store
StoreIndex(path) == CHOOSE i \in 1..Len(docsCache) : docsCache[i].path = path

\* the name or the path of the item holds the query, letter case aside
MatchesByName(item) ==
  \/ Includes(toLowerCase(item.name), toLowerCase(request.args["query"].s))
  \/ Includes(toLowerCase(item.path), toLowerCase(request.args["query"].s))

\* C20: in every search_push_chain_docs result the filename or path matches
\* are listed ahead of the content matches, the matches of each group keep
\* the order of the Data Store, and no document is listed twice.
C20_FilenameMatchesFirst ==
  DocsSearched =>
    /\ \A i \in 1..Len(SearchItems) :
         (SearchItems[i].matchType = "filename") <=> MatchesByName(SearchItems[i])
    /\ \A i, j \in 1..Len(SearchItems) :
         i < j =>
           /\ SearchItems[i].path # SearchItems[j].path
           /\ ~(SearchItems[i].matchType = "content" /\ SearchItems[j].matchType = "filename")
           /\ SearchItems[i].matchType = SearchItems[j].matchType
                => StoreIndex(SearchItems[i].path) < StoreIndex(SearchItems[j].path)

\* a search whose first result matched by name and whose second matched by
\* content, the second standing earlier in the store
C20_Witness ==
  /\ DocsSearched
  /\ Len(SearchItems) = 2
  /\ SearchItems[1].matchType = "filename"
  /\ SearchItems[2].matchType = "content"
  /\ StoreIndex(SearchItems[2].path) < StoreIndex(SearchItems[1].path)

\* a search with two matches by name
TwoFilenameMatches ==
  /\ DocsSearched
  /\ Len(SearchItems) = 2
  /\ SearchItems[1].matchType = "filename"
  /\ SearchItems[2].matchType = "filename"

\* search_sdk was answered with its summary
SdkSearched ==
  /\ ToolCall /\ server \in {"unified", "sdk"}
  /\ request.name = "search_sdk"
  /\ SuccessfulPayload /\ response.text[1].k = "json"

\* the scope of the search asked for
ScopeAsked == IF request.args["scope"] = Undef THEN "all" ELSE request.args["scope"].s

\* C21: the scope of search_sdk limits which sub-searches run: 'exports'
\* returns only export-name matches, 'code' only file-path and file-content
\* matches, 'types' only type definitions (exports of kind types or
\* interfaces), and 'all' every category.
C21_ScopeLimitsSearch ==
  SdkSearched =>
    LET results == response.text[1].of.results
    IN /\ ScopeAsked \in {"exports", "types"} =>
            results.files = <<>> /\ results.codeMatches = <<>>
       /\ ScopeAsked = "code" => results.exports = <<>>
       /\ ScopeAsked = "types" =>
            \A i \in 1..Len(results.exports) :
              results.exports[i].exportType \in {"types", "interfaces"}

\* what the scope does limit: the sub-searches that run
ScopeLimitsCategories ==
  SdkSearched =>
    LET results == response.text[1].of.results
    IN /\ ScopeAsked \in {"exports", "types"} =>
            results.files = <<>> /\ results.codeMatches = <<>>
       /\ ScopeAsked = "code" => results.exports = <<>>

\* find_usage_examples was answered with its result
ExamplesFound ==
  /\ ToolCall /\ server \in {"unified", "sdk"}
  /\ request.name = "find_usage_examples"
  /\ SuccessfulPayload /\ response.text[1].k = "json"

\* every line of every stored file that holds the name and is no comment
AllUsageLines ==
  SumSeq([i \in 1..Len(coreAndUIKitFiles) |->
            Len(UsageLines(coreAndUIKitFiles[i].content, request.args["api_name"].s))])

\* the limit the call runs with
LimitAsked == IF request.args["limit"] = Undef THEN 20 ELSE request.args["limit"].i

\* C22: find_usage_examples reports totalExamples equal to the number of
\* usage examples found, every non-comment line holding api_name across all
\* source files, whatever the limit, and lists at most limit examples.
C22_TotalExamplesComplete ==
  ExamplesFound =>
    /\ response.text[1].of.totalExamples = AllUsageLines
    /\ Len(response.text[1].of.examples) <= LimitAsked

\* what the result does keep: at most limit examples, and a total that
\* counts the lines of the files read before the loop ended
ExamplesWithinLimit ==
  ExamplesFound =>
    /\ Len(response.text[1].of.examples) <= LimitAsked
    /\ response.text[1].of.totalExamples <= AllUsageLines
    /\ response.text[1].of.totalExamples < LimitAsked
         => response.text[1].of.totalExamples = AllUsageLines

\* the characters sanitizeInput is there to take out of an echoed query
SpecialChars == {"<", ">", "\"", "'", "/"}

HasSpecialChar(str) == \E i \in 1..Len(str) : CharAt(str, i) \in SpecialChars

\* search_push_chain_docs ran with a query that holds a special character
SpecialQuerySearched ==
  /\ ToolCall /\ request.name = "search_push_chain_docs"
  /\ "lookup" \in ran /\ SuccessfulPayload
  /\ HasSpecialChar(request.args["query"].s)

\* what stands between a fixed opening and a fixed closing of a text
Between(str, opening, closing) ==
  SubSeq(str, Len(opening) + 1, Len(str) - Len(closing))

\* the query as the response echoes it: the query field of the JSON form,
\* the heading of the markdown form, or the no-result message
EchoedQuery ==
  IF response.text[1].k = "json" THEN response.text[1].of.query
  ELSE IF StartsWith(response.text[1].of, "# Search Results: '")
  THEN Between(response.text[1].of, "# Search Results: '", "'\n\nFound ")
  ELSE Between(response.text[1].of, "No documentation found matching '",
               IF server = "docs"
               THEN "'.\n\nTry:\n- Using different search terms\n- Browsing by category with 'list_push_chain_docs'\n- Using more specific keywords"
               ELSE "'.")

\* the raw query stands in the echo or in the data of a listed document
RawQueryShown ==
  \/ Includes(EchoedQuery, request.args["query"].s)
  \/ \E i \in 1..Len(SearchItems) :
       \/ Includes(SearchItems[i].name, request.args["query"].s)
       \/ Includes(SearchItems[i].path, request.args["query"].s)
       \/ Includes(SearchItems[i].preview, request.args["query"].s)

UpdatedMetadata == [lastCheck |-> 1, lastUpdate |-> 1, lastCommitSha |-> 1]

\* a first run, or a run after an earlier update
UpdaterInit ==
  /\ LoadSdkData("unified", MaxExports, 30000, TRUE)
  /\ request = NoRequest
  /\ response = NoResponse
  /\ ran = {}
  /\ probe = NoProbe
  /\ repo = <<[sha |-> 1, files |-> {"README.md"}]>>
  /\ updater = NoUpdater
  /\ pending = NoPending
  /\ \/ /\ metadata = NoMetadata
        /\ dataDir = [sha |-> 0, writes |-> 0, whole |-> TRUE]
     \/ /\ metadata = UpdatedMetadata
        /\ dataDir = [sha |-> 1, writes |-> 0, whole |-> TRUE]

UpdaterNext ==
  \/ UpdateCommand
  \/ LatestCommitFetched
  \/ PackagesCompared
  \/ SdkDataUpdated
  \/ Push
  \/ ForcePush
  \/ TimePasses

UpdaterSpec == UpdaterInit /\ [][UpdaterNext]_vars

(***************************************************************************)
(* C24: when the data files are regenerated.                               *)
(***************************************************************************)
\* a step in which updateSDKData is called
RegenerationStarts == updater.phase # "regenerating" /\ updater'.phase = "regenerating"

\* the path lies in the directory of an SDK package
UnderSdkPackage(f) ==
  \E dir \in {"packages/core/", "packages/ui-kit/"} :
    Len(f) >= Len(dir) /\ SubSeq(f, 1, Len(dir)) = dir

\* the path begins with the name of an SDK package
BeginsWithSdkPackage(f) ==
  \E pkg \in {"packages/core", "packages/ui-kit"} :
    Len(f) >= Len(pkg) /\ SubSeq(f, 1, Len(pkg)) = pkg

UnmodifiedLeavesData ==
  /\ updater.outcome = "unchanged" /\ updater.phase = "idle"
  /\ dataDir.sha < metadata.lastCommitSha

(***************************************************************************)
(* C25: the interval between two checks.                                   *)
(***************************************************************************)
\* a step in which checkAndUpdate is called
CheckCalled == updater'.runs = updater.runs + 1

\* the recorded check is less than UPDATE_INTERVAL old
WithinInterval == metadata.lastCheck # 0 /\ now - metadata.lastCheck < UPDATE_INTERVAL

\* C25: a non-forced checkAndUpdate called less than UPDATE_INTERVAL after
\* the recorded check returns at once: no request is made, no regeneration
\* runs, the metadata and the data files stay as they are; a forced call
\* goes on to the request whatever the recorded check
C25_IntervalRespected ==
  [][ CheckCalled =>
        /\ (~updater'.forceUpdate /\ WithinInterval =>
              /\ updater'.phase = "idle"
              /\ updater'.requests = 0
              /\ metadata' = metadata
              /\ dataDir' = dataDir)
        /\ (updater'.forceUpdate => updater'.phase = "fetching") ]_vars

\* a non-forced call was stopped by a check recorded one millisecond less
\* than the interval ago
C25_Witness ==
  /\ updater.outcome = "checked recently" /\ ~updater.forceUpdate
  /\ now - metadata.lastCheck = UPDATE_INTERVAL - 1
  /\ updater.startedAt = now

\* a non-forced call made exactly UPDATE_INTERVAL after the recorded check
\* went on to the request
IntervalElapsedChecks ==
  /\ updater.phase = "fetching" /\ ~updater.forceUpdate
  /\ metadata.lastCheck # 0
  /\ updater.startedAt - metadata.lastCheck = UPDATE_INTERVAL

(***************************************************************************)
(* C30: a failed regeneration.                                             *)
(***************************************************************************)
\* a step in which updateSDKData returns false
RegenerationFails ==
  /\ updater.phase = "regenerating"
  /\ updater'.outcome \in {"update failed", "forced update failed"}

\* a step in which updateSDKData returns true
RegenerationSucceeds == updater.phase = "regenerating" /\ updater'.outcome = "updated"

\* a step in which the comparison was made and lists no file of the SDK
\* packages
FoundUnmodified ==
  /\ updater.phase = "comparing"
  /\ updater'.compared.status = "ok"
  /\ \A f \in updater'.compared.files : ~BeginsWithSdkPackage(f)

\* a failed regeneration leaves lastCommitSha and lastUpdate and records the
\* check
FailureKeepsRecord ==
  RegenerationFails =>
    /\ metadata'.lastCommitSha = metadata.lastCommitSha
    /\ metadata'.lastUpdate = metadata.lastUpdate
    /\ metadata'.lastCheck = updater.startedAt

\* lastCommitSha changes only on a successful regeneration or an unmodified
\* finding
ShaAdvancesOnlyWhenSettled ==
  metadata'.lastCommitSha # metadata.lastCommitSha =>
    RegenerationSucceeds \/ FoundUnmodified

\* a step that ends a non-forced check which got the latest commit, the
\* check before it having failed to regenerate
CheckAfterFailureEnds ==
  /\ updater.phase # "idle" /\ updater'.phase = "idle"
  /\ updater.previous = "update failed" /\ ~updater.forceUpdate
  /\ updater'.outcome # "check failed"

FailureRecorded ==
  /\ updater.outcome = "update failed" /\ updater.phase = "idle"
  /\ metadata.lastCheck = updater.startedAt
  /\ metadata.lastCommitSha # updater.latestCommit
  /\ metadata.lastUpdate # updater.startedAt

(***************************************************************************)
(* The unified server with the update check started by main.               *)
(***************************************************************************)
\* the module is loaded, SDK_AUTO_UPDATE is not "false"; a first run, or a
\* run after an earlier update
BackgroundInit ==
  /\ server = "unified"
  /\ docsCache = docsCacheData(30000)
  /\ cacheTimestamp = 0
  /\ coreAndUIKitFiles = SelectSeq(fileContentsData(30000), LAMBDA f : filterByPackage(f.path))
  /\ coreAndUIKitExports =
       [kind \in DOMAIN exportsDataOf(MaxExports) |->
          SelectSeq(exportsDataOf(MaxExports)[kind], LAMBDA e : filterByPackage(e.file))]
  /\ coreAndUIKitPackages =
       SelectSeq(packagesDataOf(TRUE),
                 LAMBDA p : p.name = "@pushchain/core" \/ p.name = "@pushchain/ui-kit")
  /\ now = 1
  /\ github = <<>>
  /\ network = "ok"
  /\ process = [Running(TRUE) EXCEPT !.phase = "loaded", !.autoUpdate = TRUE]
  /\ request = NoRequest
  /\ response = NoResponse
  /\ ran = {}
  /\ probe = NoProbe
  /\ repo = <<[sha |-> 1, files |-> {"README.md"}]>>
  /\ updater = NoUpdater
  /\ pending = NoPending
  /\ \/ /\ metadata = NoMetadata
        /\ dataDir = [sha |-> 0, writes |-> 0, whole |-> TRUE]
     \/ /\ metadata = UpdatedMetadata
        /\ dataDir = [sha |-> 1, writes |-> 0, whole |-> TRUE]

\* the tools called while the check runs
BackgroundToolNames == {"get_package_info", "get_core_classes", "not_a_real_tool"}

\* a tool call answered by the unified server
CallToolDuringUpdate ==
  /\ Ready /\ Idle /\ server = "unified"
  /\ \E name \in BackgroundToolNames : \E args \in ToolArgs(name) :
       Respond([server |-> "unified", method |-> "tools/call", name |-> name,
                args |-> args, uri |-> ""],
               UnifiedCallTool(name, args))

BackgroundNext ==
  \/ main
  \/ CallToolDuringUpdate
  \/ ListToolsUnified
  \/ ListResourcesUnified
  \/ ReadResourceUnified
  \/ AwaitNextRequest
  \/ LatestCommitFetched
  \/ PackagesCompared
  \/ SdkDataUpdated
  \/ Push
  \/ ForcePush
  \/ TimePasses

BackgroundSpec == BackgroundInit /\ [][BackgroundNext]_vars

(***************************************************************************)
(* C26: the update check and the tool calls.                               *)
(***************************************************************************)
\* a check started by main has not returned yet
CheckInProgress == updater.phase \in {"fetching", "comparing", "regenerating"}

\* C26: the server is ready without waiting for the check, a tool call sent
\* while a check or a regeneration is in progress is answered, and the
\* process never exits
C26_NonBlocking ==
  /\ (process.phase = "ready" /\ Idle /\ CheckInProgress => ENABLED CallToolDuringUpdate)
  /\ process.phase # "exited"

\* the server is ready while the check waits for GitHub, a tool call is
\* answered then, and the process never exits
AnswersWhileWaiting ==
  /\ (process.phase = "ready" /\ Idle /\ updater.phase \in {"fetching", "comparing"}
        => ENABLED CallToolDuringUpdate)
  /\ process.phase # "exited"

\* the server was ready before the check's first request was answered
ReadyBeforeChecked ==
  process.phase = "ready" /\ updater.phase = "fetching" /\ updater.requests = 0

\* a check or a regeneration failed and the server answered a call
AnswersAfterFailure ==
  /\ updater.outcome \in {"check failed", "update failed"}
  /\ response.kind = "result"

(***************************************************************************)
(* C28: the Data Store of the unified server after the load.               *)
(***************************************************************************)
\* C28: once the unified server has loaded its data, no step changes
\* docsCache, coreAndUIKitFiles, coreAndUIKitExports or
\* coreAndUIKitPackages: not a tool call, a catalog request, a resource
\* listing or a read, and not a step of the background update, which writes
\* the data files and the metadata file only
C28_StoreImmutable ==
  [][ server = "unified" /\ process.phase \in {"loaded", "ready"} =>
        /\ docsCache' = docsCache
        /\ coreAndUIKitFiles' = coreAndUIKitFiles
        /\ coreAndUIKitExports' = coreAndUIKitExports
        /\ coreAndUIKitPackages' = coreAndUIKitPackages ]_vars

\* the background update has rewritten the data files, a request was
\* answered, and the store holds the documents and packages it loaded
C28_Witness ==
  /\ process.phase = "ready"
  /\ dataDir.writes > 0 /\ dataDir.sha # 0 /\ updater.outcome = "updated"
  /\ response.kind # "none"
  /\ Len(docsCache) > 0 /\ Len(coreAndUIKitPackages) > 0

(***************************************************************************)
(* C29: the lifetime of the documentation cache (standalone docs server).  *)
(***************************************************************************)
\* a step in which a handler of the docs server calls getDocFiles
DocFilesAsked == server = "docs" /\ Idle /\ "lookup" \in ran'

\* a listing was cached less than CACHE_TTL ago
WithinTtl == cacheTimestamp # 0 /\ now - cacheTimestamp < CACHE_TTL

\* C29: getDocFiles asks GitHub only when nothing is cached or the cache is
\* CACHE_TTL old or older.  Within CACHE_TTL of the last successful fetch
\* the cached list is served, the cache and its timestamp stay, and the
\* listing is answered even when GitHub cannot be reached; otherwise a
\* successful fetch replaces the cache and stamps it with the time of the
\* call, and a failed fetch leaves the cache and the timestamp as they were
C29_CacheTtl ==
  [][ DocFilesAsked =>
        /\ (WithinTtl =>
              /\ docsCache' = docsCache /\ cacheTimestamp' = cacheTimestamp
              /\ (request'.name = "list_push_chain_docs" => ~response'.isError))
        /\ (~WithinTtl /\ network = "ok" =>
              docsCache' = github /\ cacheTimestamp' = now)
        /\ (~WithinTtl /\ network # "ok" =>
              /\ docsCache' = docsCache /\ cacheTimestamp' = cacheTimestamp
              /\ (response'.isError \/ response'.kind = "error")) ]_vars

\* the listing was served from a cache one millisecond short of CACHE_TTL
\* old while GitHub could not be reached
C29_Witness ==
  /\ server = "docs" /\ request.name = "list_push_chain_docs"
  /\ response.kind = "result" /\ ~response.isError
  /\ now - cacheTimestamp = CACHE_TTL - 1
  /\ network # "ok"

\* a cache exactly CACHE_TTL old was fetched again
RefetchedAtTtl ==
  /\ server = "docs" /\ cacheTimestamp = CACHE_TTL + 1 /\ now = cacheTimestamp
  /\ "lookup" \in ran

(***************************************************************************)
(* The standalone docs server with two tool calls in flight.  A handler    *)
(* runs until its await of getDocFiles, and getDocFiles until its await of *)
(* fetchAllMdxFiles; the next request is taken up meanwhile.               *)
(***************************************************************************)
\* the listing before a document is added to the repository
EarlierListing == SubSeq(docsCacheData(30000), 1, Len(docsCacheData(30000)) - 1)

\* the transport is connected, nothing is cached yet
ConcurrentInit ==
  /\ server = "docs"
  /\ docsCache = <<>>
  /\ cacheTimestamp = 0
  /\ coreAndUIKitFiles = <<>>
  /\ coreAndUIKitExports = [kind \in DOMAIN exportsDataOf(0) |-> <<>>]
  /\ coreAndUIKitPackages = <<>>
  /\ now = 1
  /\ github = EarlierListing
  /\ network \in NetworkStates
  /\ process = Running(TRUE)
  /\ request = NoRequest
  /\ response = NoResponse
  /\ ran = {}
  /\ probe = NoProbe
  /\ UpdaterOff
  /\ pending = NoPending

\* a tool call reaches getDocFiles: the cache is returned while it is
\* fresh, else the listing is requested and the call awaits it
CallGetDocFiles(c) ==
  /\ pending[c].phase = "none"
  /\ pending' =
       [pending EXCEPT ![c] =
          IF CacheFresh
          THEN [phase |-> "done", now |-> now, ok |-> TRUE, docs |-> docsCache]
          ELSE [phase |-> "requested", now |-> now, ok |-> FALSE, docs |-> <<>>]]
  /\ UNCHANGED <<store, server, now, github, network, process, request, response, ran,
                 probe, updating>>

\* GitHub answers the requests of fetchAllMdxFiles with the files it holds,
\* or a request fails
GitHubAnswers(c) ==
  /\ pending[c].phase = "requested"
  /\ pending' = [pending EXCEPT ![c] = [@ EXCEPT !.phase = "answered",
                                                 !.ok = (network = "ok"),
                                                 !.docs = IF network = "ok" THEN github
                                                          ELSE <<>>]]
  /\ UNCHANGED <<store, server, now, github, network, process, request, response, ran,
                 probe, updating>>

\* the await of fetchAllMdxFiles ends: the listing and the instant read at
\* the start of the call are assigned, or the error is thrown on
DocFilesFetched(c) ==
  /\ pending[c].phase = "answered"
  /\ pending' = [pending EXCEPT ![c] = [@ EXCEPT !.phase = "done"]]
  /\ docsCache' = IF pending[c].ok THEN pending[c].docs ELSE docsCache
  /\ cacheTimestamp' = IF pending[c].ok THEN pending[c].now ELSE cacheTimestamp
  /\ UNCHANGED <<coreAndUIKitFiles, coreAndUIKitExports, coreAndUIKitPackages>>
  /\ UNCHANGED <<server, now, github, network, process, request, response, ran, probe,
                 updating>>

\* a document is added to the repository
Publish ==
  /\ github = EarlierListing
  /\ github' = docsCacheData(30000)
  /\ UNCHANGED <<store, server, now, network, process, request, response, ran, probe,
                 updating, pending>>

ConcurrentNext ==
  \/ \E c \in Calls : CallGetDocFiles(c)
  \/ \E c \in Calls : GitHubAnswers(c)
  \/ \E c \in Calls : DocFilesFetched(c)
  \/ Publish
  \/ Tick
  \/ NetworkChange

ConcurrentSpec == ConcurrentInit /\ [][ConcurrentNext]_vars

(***************************************************************************)
(* C27: calls in flight together.                                          *)
(***************************************************************************)
\* the calls made one after the other, c first: when c fetched the listing
\* and d was made less than CACHE_TTL later, d is served what c cached
Sequentially(c, d) ==
  pending[c].ok /\ pending[d].now - pending[c].now < CACHE_TTL =>
    pending[d].ok /\ pending[d].docs = pending[c].docs

\* the cache and its timestamp are null together, or those of one call
StoreWhole ==
  \/ docsCache = <<>> /\ cacheTimestamp = 0
  \/ \E c \in Calls :
       /\ pending[c].phase = "done" /\ pending[c].ok
       /\ docsCache = pending[c].docs /\ cacheTimestamp = pending[c].now

\* C27: however the calls interleave, the results of two finished calls are
\* those of the calls made one after the other in some order, and the cache
\* is never partially updated
C27_SequentialResults ==
  /\ StoreWhole
  /\ (\A c \in Calls : pending[c].phase = "done") =>
       Sequentially(1, 2) \/ Sequentially(2, 1)

\* both calls found no fresh cache and fetched the listing
BothFetched ==
  /\ \A c \in Calls : pending[c].phase = "done" /\ pending[c].ok
  /\ pending[1].now = pending[2].now
  /\ cacheTimestamp # 0

\* calls made one after the other stamp the cache with later and later
\* instants
TimestampNeverGoesBack == [][cacheTimestamp' >= cacheTimestamp]_vars

====
